---- MODULE Spec2Model ----
(***************************************************************************)
(* Model of the temporal precision and duration engine of epc:             *)
(*   src/src/hduration.rs         HDuration::from_str, flush               *)
(*   src/src/common/precision.rs  Precision                                *)
(*   src/src/convert.rs           ConversionInput                          *)
(*                                                                         *)
(* Machine integers (u64, u32, i64) are sequences of 16-bit limbs, least   *)
(* significant limb first, so that their width is exact.  A string is a    *)
(* sequence of one-character strings.                                      *)
(***************************************************************************)
EXTENDS Integers, Sequences, FiniteSets, TLC

(***************************************************************************)
(* Bounds of the inputs.                                                   *)
(***************************************************************************)
\* longest input drawn character by character from Alphabet
MaxLen == 4
\* most tokens of TokenPool in one input
MaxTokens == 2
\* most repetitions of one token in one input
MaxRepeat == 5

(***************************************************************************)
(* Machine integers.  A number is a sequence of limbs of LimbBits bits,    *)
(* least significant limb first; its width is its number of limbs.         *)
(***************************************************************************)
LimbBits == 16
Base == 2^LimbBits
\* the most a multiplier or divisor of the limb-wise operators may be
MaxSmall == 2^(LimbBits - 1)
\* u64 and i64, u32, and a width that holds every exact value of the model
W64 == 4
W32 == 2
Wide == 6

Zero(w) == [i \in 1..w |-> 0]

\* n < 2^31 as a number of width w >= 2
NatToBV(n, w) ==
  [i \in 1..w |-> IF i = 1 THEN n % Base ELSE IF i = 2 THEN n \div Base ELSE 0]

\* x * k + c for k, c <= MaxSmall, limb by limb from limb i: the low limbs
\* and what is carried out of the top
RECURSIVE MulAddRec(_, _, _, _)
MulAddRec(x, k, c, i) ==
  IF i > Len(x) THEN [bits |-> <<>>, carry |-> c]
  ELSE LET t == x[i] * k + c
           r == MulAddRec(x, k, t \div Base, i + 1)
       IN [bits |-> <<t % Base>> \o r.bits, carry |-> r.carry]

MulAdd(x, k, c) == MulAddRec(x, k, c, 1)

\* x + y + c for two numbers of one width
RECURSIVE AddRec(_, _, _, _)
AddRec(x, y, c, i) ==
  IF i > Len(x) THEN [bits |-> <<>>, carry |-> c]
  ELSE LET t == x[i] + y[i] + c
           r == AddRec(x, y, t \div Base, i + 1)
       IN [bits |-> <<t % Base>> \o r.bits, carry |-> r.carry]

Add(x, y) == AddRec(x, y, 0, 1)

\* x * k for k < 2^25, as (x * (k div 1024)) * 1024 + x * (k mod 1024);
\* carry is 1 when the exact product does not fit the width of x
Mul(x, k) ==
  LET h == MulAdd(x, k \div 1024, 0)
      h2 == MulAdd(h.bits, 1024, 0)
      l == MulAdd(x, k % 1024, 0)
      a == Add(h2.bits, l.bits)
  IN [bits |-> a.bits,
      carry |-> IF h.carry # 0 \/ h2.carry # 0 \/ l.carry # 0 \/ a.carry # 0
                THEN 1 ELSE 0]

\* quotient and remainder of x by m <= MaxSmall, from the top limb i down
RECURSIVE DivModRec(_, _, _, _)
DivModRec(x, m, i, r) ==
  IF i = 0 THEN [bits |-> <<>>, rem |-> r]
  ELSE LET t == r * Base + x[i]
           rest == DivModRec(x, m, i - 1, t % m)
       IN [bits |-> rest.bits \o <<t \div m>>, rem |-> rest.rem]

\* quotient and remainder of x by m < 2^31; a larger m is divided out one
\* small factor f at a time: x = (q * (m/f) + r2) * f + r1
RECURSIVE DivMod(_, _)
DivMod(x, m) ==
  IF m <= MaxSmall THEN DivModRec(x, m, Len(x), 0)
  ELSE LET f == CHOOSE f \in {1000, 60} : m % f = 0
           q1 == DivModRec(x, f, Len(x), 0)
           q2 == DivMod(q1.bits, m \div f)
       IN [bits |-> q2.bits, rem |-> q2.rem * f + q1.rem]

\* unsigned x < y, from the top limb i down
RECURSIVE LessRec(_, _, _)
LessRec(x, y, i) ==
  IF i = 0 THEN FALSE
  ELSE IF x[i] # y[i] THEN x[i] < y[i]
  ELSE LessRec(x, y, i - 1)

Less(x, y) == LessRec(x, y, Len(x))

IsZero(x) == \A i \in 1..Len(x) : x[i] = 0

\* the low w limbs of x, and x widened with zeros to w limbs
Low(x, w) == [i \in 1..w |-> x[i]]
ZeroExt(x, w) == [i \in 1..w |-> IF i <= Len(x) THEN x[i] ELSE 0]

(***************************************************************************)
(* Characters and decimal text.                                            *)
(***************************************************************************)
Digits10 == <<"0", "1", "2", "3", "4", "5", "6", "7", "8", "9">>
is_ascii_digit(c) == \E i \in 1..10 : Digits10[i] = c
to_digit(c) == (CHOOSE i \in 1..10 : Digits10[i] = c) - 1

(***************************************************************************)
(* Results: Ok(v), Err(e) and a panic (the process aborts).                *)
(***************************************************************************)
Ok(v) == [kind |-> "Ok", val |-> v]
Err(e) == [kind |-> "Err", err |-> e]
Panic == [kind |-> "Panic"]
None == [kind |-> "None"]

(***************************************************************************)
(* Precision (src/src/common/precision.rs).                                *)
(***************************************************************************)
Tiers == {"Weeks", "Days", "Hours", "Mins", "Secs", "Millis", "Nanos"}

\* the match with one more pattern, "n" for Nanos, and the case ignored for
\* the one-letter codes of weeks and seconds
Precision_from_str_loose(t) ==
  CASE t \in {<<"w">>, <<"W">>, <<"w", "e", "e", "k", "s">>} -> Ok("Weeks")
    [] t = <<"d">> \/ t = <<"d", "a", "y", "s">> -> Ok("Days")
    [] t = <<"h">> \/ t = <<"h", "o", "u", "r", "s">> -> Ok("Hours")
    [] t = <<"m">> \/ t = <<"m", "i", "n", "s">> -> Ok("Mins")
    [] t \in {<<"s">>, <<"S">>, <<"s", "e", "c", "s">>} -> Ok("Secs")
    [] t = <<"m", "s">> \/ t = <<"m", "i", "l", "l", "i", "s">> -> Ok("Millis")
    [] t \in {<<"n">>, <<"n", "s">>, <<"n", "a", "n", "o", "s">>} -> Ok("Nanos")
    [] OTHER -> Err([msg |-> "Unknown precision", text |-> t])

\* impl FromStr for Precision: an exact match of the whole text
Precision_from_str(t) ==
  CASE t = <<"w">> \/ t = <<"w", "e", "e", "k", "s">> -> Ok("Weeks")
    [] t = <<"d">> \/ t = <<"d", "a", "y", "s">> -> Ok("Days")
    [] t = <<"h">> \/ t = <<"h", "o", "u", "r", "s">> -> Ok("Hours")
    [] t = <<"m">> \/ t = <<"m", "i", "n", "s">> -> Ok("Mins")
    [] t = <<"s">> \/ t = <<"s", "e", "c", "s">> -> Ok("Secs")
    [] t = <<"m", "s">> \/ t = <<"m", "i", "l", "l", "i", "s">> -> Ok("Millis")
    [] t = <<"n", "s">> \/ t = <<"n", "a", "n", "o", "s">> -> Ok("Nanos")
    [] OTHER -> Err([msg |-> "Unknown precision", text |-> t])

try_downcast(p) ==
  CASE p = "Weeks" -> Ok("Days")
    [] p = "Days" -> Ok("Hours")
    [] p = "Hours" -> Ok("Mins")
    [] p = "Mins" -> Ok("Secs")
    [] p = "Secs" -> Ok("Millis")
    [] p = "Millis" -> Ok("Nanos")
    [] OTHER -> None

\* seconds_per with the arm of Hours and Mins not descending: 60 for both
seconds_per_flat(p) ==
  CASE p = "Weeks" -> 7 * 24 * 60
    [] p = "Days" -> 24 * 60
    [] p \in {"Hours", "Mins"} -> 60
    [] p = "Secs" -> 1
    [] OTHER -> 0

\* self.try_downcast().map(|p| p.seconds_per()).unwrap_or(0), times the tier's factor
RECURSIVE seconds_per(_)
seconds_per(p) ==
  LET down == IF try_downcast(p).kind = "Ok" THEN seconds_per(try_downcast(p).val) ELSE 0
  IN CASE p = "Weeks" -> 7 * down
       [] p = "Days" -> 24 * down
       [] p \in {"Hours", "Mins"} -> 60 * down
       [] p = "Secs" -> 1
       [] OTHER -> 0

(***************************************************************************)
(* An arithmetic operator of the source that is not checked: when the      *)
(* exact value r (low limbs and carry) does not fit, a build with overflow  *)
(* checks (cargo's dev profile) panics and one without (the release        *)
(* profile) keeps the low limbs.                                           *)
(***************************************************************************)
Unchecked(r, checks) ==
  IF r.carry = 0 THEN [kind |-> "Ok", val |-> r.bits, wrapped |-> FALSE]
  ELSE IF checks THEN Panic
  ELSE [kind |-> "Ok", val |-> r.bits, wrapped |-> TRUE]

(***************************************************************************)
(* flush (src/src/hduration.rs): the contribution (sec, nano) of one       *)
(* buffered number d and unit text u.                                      *)
(***************************************************************************)
MillisPerSec == 1000
\* the nanoseconds of a millisecond (chrono, and the specification of flush)
NanosPerMilli == 1000000
NanosPerSec == 1000000000

\* Precision::Millis and Precision::Nanos: sec += d / m, and
\* (d % m).try_into().ok().and_then(|d| nano.checked_add(d)) with nano = 0
\* (the remainder is below m <= 10^9, so it fits u32 and the sum cannot
\* overflow), then nano += v
flush_sub(d, m) ==
  LET dm == DivMod(d, m)
  IN [kind |-> "Ok", sec |-> dm.bits, nano |-> NatToBV(dm.rem, W32), wrapped |-> FALSE]

\* _ => sec += dbuf * p.seconds_per() as u64, unchecked
flush_whole(d, p, checks) ==
  LET r == Unchecked(Mul(d, seconds_per(p)), checks)
  IN IF r.kind = "Panic" THEN Panic
     ELSE [kind |-> "Ok", sec |-> r.val, nano |-> Zero(W32), wrapped |-> r.wrapped]

flush(d, u, checks) ==
  LET p == Precision_from_str(u)
  IN IF p.kind = "Err" THEN p
     ELSE CASE p.val = "Millis" -> flush_sub(d, MillisPerSec)
            [] p.val = "Nanos" -> flush_sub(d, NanosPerSec)
            [] OTHER -> flush_whole(d, p.val, checks)

(***************************************************************************)
(* HDuration::new (src/src/hduration.rs) with std's Duration::new: the     *)
(* nanoseconds above one second are carried into the seconds, and the      *)
(* carry panics when the seconds overflow.                                 *)
(***************************************************************************)
\* HDuration::new with the nanoseconds stored as they come, without the carry
HDuration_new_nocarry(secs, nanos, negative, readable) ==
  Ok([secs |-> secs, nanos |-> nanos, negative |-> negative, readable |-> readable])

HDuration_new(secs, nanos, negative, readable) ==
  LET dm == DivMod(nanos, NanosPerSec)
      a == Add(secs, ZeroExt(dm.bits, W64))
  IN IF a.carry # 0 THEN Panic
     ELSE Ok([secs |-> a.bits, nanos |-> NatToBV(dm.rem, W32),
              negative |-> negative, readable |-> readable])

(***************************************************************************)
(* HDuration::from_str (src/src/hduration.rs): the state of the scan.      *)
(***************************************************************************)
VARIABLES
  s,                \* the input string
  pos,              \* chars: the number of characters consumed
  sec,              \* u64
  nano,             \* u32
  is_neg,
  dbuf,             \* u64, the digits buffered
  in_char,
  cbuf,             \* the unit letters buffered
  pc,               \* "loop", "ret" (after the break), "done"
  result,           \* what from_str returned, or a panic
  wrapped,          \* an unchecked operation has kept the low bits only
  overflow_checks   \* the build: TRUE panics on overflow, FALSE wraps

dur_vars == <<s, pos, sec, nano, is_neg, dbuf, in_char, cbuf, pc, result,
              wrapped, overflow_checks>>

UnitLetters == {"m", "s", "n", "d", "h", "w"}

\* the locals of from_str at its first loop iteration
from_str_start(str, checks) ==
  [s |-> str, pos |-> 0, sec |-> Zero(W64), nano |-> Zero(W32), is_neg |-> FALSE,
   dbuf |-> Zero(W64), in_char |-> FALSE, cbuf |-> <<>>, pc |-> "loop",
   result |-> None, wrapped |-> FALSE, overflow_checks |-> checks]

\* chars.peek() with unwrap_or(&(0, ' '))
peek(st) ==
  IF st.pos < Len(st.s)
  THEN [some |-> TRUE, idx |-> st.pos, c |-> st.s[st.pos + 1]]
  ELSE [some |-> FALSE, idx |-> 0, c |-> " "]

should_flush(st) ==
  ~peek(st).some \/ (is_ascii_digit(peek(st).c) /\ st.in_char)

\* the arm of the match that the next character takes
match_arm(st) ==
  LET c == peek(st).c
  IN IF c = " " \/ should_flush(st) THEN "flush"
     ELSE IF c = "-" /\ peek(st).idx = 0 THEN "sign"
     ELSE IF is_ascii_digit(c) THEN "digit"
     ELSE IF c \in UnitLetters THEN "unit"
     ELSE "invalid"

returned(st, r) == [st EXCEPT !.pc = "done", !.result = r]

TooLarge == Err([msg |-> "Too large of duration"])

\* the flush arm without "dbuf = c.to_digit(10).unwrap_or(0)": the digits of
\* the token flushed stay in the buffer
arm_flush_keep(st) ==
  LET nx == peek(st)
      st1 == [st EXCEPT !.in_char = FALSE]
      f == flush(st.dbuf, st.cbuf, st.overflow_checks)
      a == Add(st.sec, f.sec)
      b == Add(st.nano, f.nano)
  IN IF f.kind # "Ok" THEN returned(st1, f)
     ELSE IF a.carry # 0 THEN returned(st1, TooLarge)
     ELSE IF b.carry # 0 THEN returned([st1 EXCEPT !.sec = a.bits], TooLarge)
     ELSE [st1 EXCEPT !.sec = a.bits, !.nano = b.bits,
                      !.cbuf = <<>>,
                      !.wrapped = @ \/ f.wrapped,
                      !.pc = IF nx.some THEN "loop" ELSE "ret",
                      !.pos = IF nx.some THEN @ + 1 ELSE @]

\* (_, ' ') | (true, _): flush the buffered token into the totals
arm_flush(st) ==
  LET nx == peek(st)
      st1 == [st EXCEPT !.in_char = FALSE]
      f == flush(st.dbuf, st.cbuf, st.overflow_checks)
      a == Add(st.sec, f.sec)
      b == Add(st.nano, f.nano)
  IN IF f.kind # "Ok" THEN returned(st1, f)
     ELSE IF a.carry # 0 THEN returned(st1, TooLarge)
     ELSE IF b.carry # 0 THEN returned([st1 EXCEPT !.sec = a.bits], TooLarge)
     ELSE [st1 EXCEPT !.sec = a.bits, !.nano = b.bits,
                      !.dbuf = NatToBV(IF is_ascii_digit(nx.c) THEN to_digit(nx.c) ELSE 0, W64),
                      !.cbuf = <<>>,
                      !.wrapped = @ \/ f.wrapped,
                      !.pc = IF nx.some THEN "loop" ELSE "ret",
                      !.pos = IF nx.some THEN @ + 1 ELSE @]

\* (_, '-') if *idx == 0
arm_sign(st) == [st EXCEPT !.is_neg = TRUE, !.pos = @ + 1]

\* dbuf = dbuf * 10 + c.to_digit(10).unwrap() as u64, unchecked
arm_digit(st) ==
  LET r == Unchecked(MulAdd(st.dbuf, 10, to_digit(peek(st).c)), st.overflow_checks)
  IN IF r.kind = "Panic" THEN returned(st, Panic)
     ELSE [st EXCEPT !.dbuf = r.val, !.wrapped = @ \/ r.wrapped, !.pos = @ + 1]

\* (_, 'm' | 's' | 'n' | 'd' | 'h' | 'w')
arm_unit(st) ==
  [st EXCEPT !.cbuf = Append(@, peek(st).c), !.in_char = TRUE, !.pos = @ + 1]

\* _ => return Err(format!("Invalid character {} at pos {}", c, idx))
arm_invalid(st) ==
  returned(st, Err([msg |-> "Invalid character", c |-> peek(st).c, idx |-> peek(st).idx]))

\* Ok(HDuration::new(sec, nano, is_neg, s))
from_str_return(st) ==
  returned(st, HDuration_new(st.sec, st.nano, st.is_neg, st.s))

\* one iteration of the loop, or the return after it; nothing once returned
step(st) ==
  IF st.pc = "done" THEN st
  ELSE IF st.pc = "ret" THEN from_str_return(st)
  ELSE CASE match_arm(st) = "flush" -> arm_flush(st)
         [] match_arm(st) = "sign" -> arm_sign(st)
         [] match_arm(st) = "digit" -> arm_digit(st)
         [] match_arm(st) = "unit" -> arm_unit(st)
         [] OTHER -> arm_invalid(st)

\* n steps, halved to keep the nesting of the evaluation shallow
RECURSIVE steps(_, _)
steps(st, n) ==
  IF st.pc = "done" \/ n = 0 THEN st
  ELSE IF n = 1 THEN step(st)
  ELSE steps(steps(st, n \div 2), n - n \div 2)

\* from_str run to its end: every iteration but the last consumes one
\* character, and the return follows the last
run(st) == steps(st, Len(st.s) + 2)

HDuration_from_str(str, checks) == run(from_str_start(str, checks)).result

(***************************************************************************)
(* The inputs of HDuration::from_str.                                      *)
(***************************************************************************)
\* the text of a sequence of decimal digits
Txt(ds) == [i \in 1..Len(ds) |-> Digits10[ds[i] + 1]]

\* u64::MAX, u64::MAX + 1, and the least number of weeks whose seconds
\* do not fit u64
U64MaxTxt == Txt(<<1, 8, 4, 4, 6, 7, 4, 4, 0, 7, 3, 7, 0, 9, 5, 5, 1, 6, 1, 5>>)
U64OverTxt == Txt(<<1, 8, 4, 4, 6, 7, 4, 4, 0, 7, 3, 7, 0, 9, 5, 5, 1, 6, 1, 6>>)
WeeksOverTxt == Txt(<<3, 0, 5, 0, 0, 5, 6, 8, 9, 0, 4, 9, 4, 4>>)
NinesTxt == Txt(<<9, 9, 9, 9, 9, 9, 9, 9, 9>>)

Alphabet == {"-", " ", "1", "s", "m", "x"}

\* text fragments of a duration: tokens of every unit, numbers at the edge
\* of u64 and of one second, and faulty tokens
TokenPool ==
  { <<"1", "s">>,
    <<"1", "0", "m">>,
    <<"2", "h">>,
    <<"5", "d">>,
    <<"3", "w">>,
    <<"1", "5", "0", "0", "m", "s">>,
    <<"1", "n", "s">>,
    NinesTxt \o <<"n", "s">>,
    U64MaxTxt \o <<"s">>,
    U64MaxTxt \o <<"s", " ">> \o NinesTxt \o <<"n", "s">>,
    U64OverTxt \o <<"s">>,
    WeeksOverTxt \o <<"w">>,
    <<"2", "n">>,
    <<"1", "x">>,
    <<"-", "1", "n", "s">> }

\* the tokens of ts with one space between neighbours
RECURSIVE JoinSp(_)
JoinSp(ts) ==
  IF Len(ts) = 0 THEN <<>>
  ELSE IF Len(ts) = 1 THEN ts[1]
  ELSE ts[1] \o <<" ">> \o JoinSp(Tail(ts))

CharInputs == UNION {[1..n -> Alphabet] : n \in 0..MaxLen}
TokenSeqs == UNION {[1..n -> TokenPool] : n \in 1..MaxTokens}
RepeatSeqs == {[i \in 1..k |-> t] : t \in TokenPool, k \in 1..MaxRepeat}
\* tokens with a space after them, and pairs of tokens two spaces apart
SpaceAfter == {t \o <<" ">> : t \in TokenPool}
TwoSpaces == {t \o <<" ", " ">> \o u : t, u \in TokenPool}
Inputs ==
  CharInputs \cup {JoinSp(ts) : ts \in TokenSeqs \cup RepeatSeqs}
             \cup SpaceAfter \cup TwoSpaces

(***************************************************************************)
(* Signed machine integers (i64): two's complement over the same limbs.    *)
(***************************************************************************)
One(w) == [i \in 1..w |-> IF i = 1 THEN 1 ELSE 0]
IsNeg(x) == x[Len(x)] >= MaxSmall
Negate(x) == Add([i \in 1..Len(x) |-> Base - 1 - x[i]], One(Len(x))).bits
SignExt(x, w) ==
  [i \in 1..w |-> IF i <= Len(x) THEN x[i] ELSE IF IsNeg(x) THEN Base - 1 ELSE 0]

\* signed x < y
SLess(x, y) == IF IsNeg(x) # IsNeg(y) THEN IsNeg(x) ELSE Less(x, y)

\* i64 * k for 0 < k < 2^25: the exact product has width Wide, and it
\* overflows i64 when the sign extension of its low limbs is another number
SMul(x, k) ==
  LET exact == Mul(SignExt(x, Wide), k).bits
  IN [bits |-> Low(exact, W64),
      carry |-> IF exact = SignExt(Low(exact, W64), Wide) THEN 0 ELSE 1]

\* i64::div_euclid and rem_euclid by m > 0
DivEuclid(x, m) ==
  IF ~IsNeg(x) THEN DivMod(x, m)
  ELSE LET dm == DivMod(Negate(x), m)
       IN IF dm.rem = 0 THEN [bits |-> Negate(dm.bits), rem |-> 0]
          ELSE [bits |-> Negate(Add(dm.bits, One(Len(x))).bits), rem |-> m - dm.rem]

(***************************************************************************)
(* Precision::parse (src/src/common/precision.rs) over chrono's            *)
(* Utc.timestamp_opt: an instant is a number of seconds since the epoch    *)
(* and a number of nanoseconds, or there is none (LocalResult::None).      *)
(***************************************************************************)
SecsPerDay == 86400
\* the days from the epoch to the day after the last date and back to the
\* first date of chrono's NaiveDate (+262143-12-31 and -262144-01-01)
DaysAfterMax == 95026602
DaysBeforeMin == 96465658

MaxSecsExcl == Mul(NatToBV(DaysAfterMax, W64), SecsPerDay).bits
MinSecs == Negate(Mul(NatToBV(DaysBeforeMin, W64), SecsPerDay).bits)

\* NaiveDateTime::from_timestamp_opt finds a date for the seconds
InRange(secs) == ~SLess(secs, MinSecs) /\ SLess(secs, MaxSecsExcl)

Single(secs, nanos) == [kind |-> "Single", secs |-> secs, nanos |-> nanos]

\* Utc.timestamp_opt(secs, nanos)
timestamp_opt(secs, nanos) == IF InRange(secs) THEN Single(secs, nanos) ELSE None

\* Utc.timestamp_millis_opt(ts)
timestamp_millis_opt(ts) ==
  LET dm == DivEuclid(ts, MillisPerSec)
  IN timestamp_opt(dm.bits, dm.rem * NanosPerMilli)

\* Utc.timestamp_nanos(ts), which no i64 takes out of range
timestamp_nanos(ts) ==
  LET dm == DivEuclid(ts, NanosPerSec)
  IN Single(dm.bits, dm.rem)

\* every tier through the product with seconds_per, Millis and Nanos too
Precision_parse_by_seconds(p, ts, checks) ==
  LET r == Unchecked(SMul(ts, seconds_per(p)), checks)
  IN IF r.kind = "Panic" THEN Panic ELSE timestamp_opt(r.val, 0)

\* _ => Utc.timestamp_opt(ts * self.seconds_per(), 0), the product unchecked
Precision_parse(p, ts, checks) ==
  CASE p = "Millis" -> timestamp_millis_opt(ts)
    [] p = "Nanos" -> timestamp_nanos(ts)
    [] OTHER ->
         LET r == Unchecked(SMul(ts, seconds_per(p)), checks)
         IN IF r.kind = "Panic" THEN Panic ELSE timestamp_opt(r.val, 0)

\* ConversionInput::Stamp(ts): .single().map(|dt| dt.into()).ok_or_else(..)
to_dt_stamp(ts, local) ==
  IF local.kind = "Single" THEN Ok([secs |-> local.secs, nanos |-> local.nanos])
  ELSE Err([msg |-> "Could not parse", ts |-> ts])

(***************************************************************************)
(* The state of the other operations: one call of Precision::from_str on   *)
(* a unit text, one conversion of a stamp (ConversionInput::to_dt), and    *)
(* one call of ConvArgs::handle.                                           *)
(***************************************************************************)
VARIABLES
  unit_text,        \* the argument of Precision::from_str
  unit_result,      \* what it returned, None before the call
  stamp,            \* i64, ConversionInput::Stamp
  tier,             \* the Precision of the conversion
  local,            \* what Precision::parse returned, None before the call
  dt,               \* what to_dt returned, or a panic
  spc,              \* "idle", "parse", "single", "done"
  input,            \* ConvArgs.input, the arguments
  precision,        \* ConvArgs.format.precision
  output_format,    \* ConvArgs.format.output_format
  truncate,         \* ConvArgs.truncate.truncate
  add,              \* ConvArgs.add.add
  order,            \* ConvArgs.order.order
  timezone,         \* ConvArgs.timezone
  lib,              \* the release of chrono that the build links
  idx,              \* the argument, then the instant, that is worked on
  cur,              \* the Result that the iterator chain hands on
  dts,              \* the collected instants
  out,              \* the lines written to out
  err,              \* the lines written to err
  cpc               \* the step of handle that comes next

unit_vars == <<unit_text, unit_result>>
stamp_vars == <<stamp, tier, local, dt, spc>>
conv_args == <<input, precision, output_format, truncate, add, order, timezone, lib>>
conv_vars == <<conv_args, idx, cur, dts, out, err, cpc>>

UnitIdle == unit_text = <<>> /\ unit_result = None
StampIdle ==
  stamp = Zero(W64) /\ tier = "Secs" /\ local = None /\ dt = None /\ spc = "idle"
ConvIdle ==
  /\ input = <<>> /\ precision = "Millis" /\ output_format = None
  /\ truncate = None /\ add = None /\ order = None /\ timezone = "UTC"
  /\ lib = "modern" /\ idx = 0 /\ cur = None /\ dts = <<>>
  /\ out = <<>> /\ err = <<>> /\ cpc = "idle"

(***************************************************************************)
(* The state machine of one call of from_str.                              *)
(***************************************************************************)
vars == <<dur_vars, unit_vars, stamp_vars, conv_vars>>

Cur ==
  [s |-> s, pos |-> pos, sec |-> sec, nano |-> nano, is_neg |-> is_neg,
   dbuf |-> dbuf, in_char |-> in_char, cbuf |-> cbuf, pc |-> pc,
   result |-> result, wrapped |-> wrapped, overflow_checks |-> overflow_checks]

Set(st) ==
  /\ s' = st.s /\ pos' = st.pos /\ sec' = st.sec /\ nano' = st.nano
  /\ is_neg' = st.is_neg /\ dbuf' = st.dbuf /\ in_char' = st.in_char
  /\ cbuf' = st.cbuf /\ pc' = st.pc /\ result' = st.result
  /\ wrapped' = st.wrapped /\ overflow_checks' = st.overflow_checks
  /\ UNCHANGED <<unit_vars, stamp_vars, conv_vars>>

Start(st) ==
  /\ s = st.s /\ pos = st.pos /\ sec = st.sec /\ nano = st.nano
  /\ is_neg = st.is_neg /\ dbuf = st.dbuf /\ in_char = st.in_char
  /\ cbuf = st.cbuf /\ pc = st.pc /\ result = st.result
  /\ wrapped = st.wrapped /\ overflow_checks = st.overflow_checks

Init ==
  /\ \E str \in Inputs, checks \in BOOLEAN :
       Start(from_str_start(str, checks))
  /\ UnitIdle
  /\ StampIdle
  /\ ConvIdle

Flush == pc = "loop" /\ match_arm(Cur) = "flush" /\ Set(arm_flush(Cur))
Sign == pc = "loop" /\ match_arm(Cur) = "sign" /\ Set(arm_sign(Cur))
Digit == pc = "loop" /\ match_arm(Cur) = "digit" /\ Set(arm_digit(Cur))
Unit == pc = "loop" /\ match_arm(Cur) = "unit" /\ Set(arm_unit(Cur))
Invalid == pc = "loop" /\ match_arm(Cur) = "invalid" /\ Set(arm_invalid(Cur))
Return == pc = "ret" /\ Set(from_str_return(Cur))

Next == Flush \/ Sign \/ Digit \/ Unit \/ Invalid \/ Return

Spec == Init /\ [][Next]_vars

(***************************************************************************)
(* The grammar and the exact value of a duration string, as the            *)
(* specification states them (not taken from the code).                    *)
(***************************************************************************)
UnitCodes == {<<"w">>, <<"d">>, <<"h">>, <<"m">>, <<"s">>, <<"m", "s">>, <<"n", "s">>}

IsLetter(c) == c \in UnitLetters

\* one token: at least one digit, then one unit code
WellFormedToken(t) ==
  \E k \in 1..(Len(t) - 1) :
    /\ \A i \in 1..k : is_ascii_digit(t[i])
    /\ SubSeq(t, k + 1, Len(t)) \in UnitCodes

\* the maximal runs of unit letters of str, as pairs of positions
LetterRuns(str) ==
  {<<i, j>> \in (1..Len(str)) \X (1..Len(str)) :
     /\ i <= j
     /\ \A k \in i..j : IsLetter(str[k])
     /\ (i = 1 \/ ~IsLetter(str[i - 1]))
     /\ (j = Len(str) \/ ~IsLetter(str[j + 1]))}

\* one or more tokens directly concatenated
TokenRun(t) ==
  /\ Len(t) > 0
  /\ \A i \in 1..Len(t) : is_ascii_digit(t[i]) \/ IsLetter(t[i])
  /\ is_ascii_digit(t[1])
  /\ IsLetter(t[Len(t)])
  /\ \A r \in LetterRuns(t) : SubSeq(t, r[1], r[2]) \in UnitCodes

\* the pieces of str between its spaces, in order
Spaces(str) == {i \in 1..Len(str) : str[i] = " "}
PieceStarts(str) == {1} \cup {i + 1 : i \in Spaces(str)}
PieceEnd(str, a) ==
  IF \E i \in Spaces(str) : i >= a
  THEN (CHOOSE i \in Spaces(str) : i >= a /\ \A j \in Spaces(str) : j >= a => i <= j) - 1
  ELSE Len(str)
Pieces(str) ==
  [k \in 1..Cardinality(PieceStarts(str)) |->
     LET a == CHOOSE a \in PieceStarts(str) :
                Cardinality({b \in PieceStarts(str) : b < a}) = k - 1
     IN SubSeq(str, a, PieceEnd(str, a))]

HasSign(str) == Len(str) > 0 /\ str[1] = "-"
Unsigned(str) == IF HasSign(str) THEN Tail(str) ELSE str

\* an optional '-', then tokens concatenated or separated by one space
Grammar(str) == \A i \in 1..Len(Pieces(Unsigned(str))) : TokenRun(Pieces(Unsigned(str))[i])

\* tokens separated by single spaces
SpacedTokens(str) == \A i \in 1..Len(Pieces(str)) : WellFormedToken(Pieces(str)[i])

Done == pc = "done"
IsOk == result.kind = "Ok"
IsErr == result.kind = "Err"

(***************************************************************************)
(* C1: every flushed token <N>ms adds N / 1000 seconds and                 *)
(* (N % 1000) * 1,000,000 nanoseconds to the totals.                       *)
(***************************************************************************)
C1_MillisContribution ==
  [][(Flush /\ cbuf = <<"m", "s">> /\ pc' # "done") =>
       /\ sec' = Add(sec, DivMod(dbuf, MillisPerSec).bits).bits
       /\ nano' = Add(nano, NatToBV(DivMod(dbuf, MillisPerSec).rem * NanosPerMilli, W32)).bits]_vars

(***************************************************************************)
(* C2: an overflow of the digit buffer, of number * seconds_per(unit) or   *)
(* of the running totals makes the parse return an error; no input makes   *)
(* the parser wrap a value around or abort.                                *)
(***************************************************************************)
C2_OverflowIsError ==
  Done => /\ result.kind # "Panic"
          /\ (wrapped => IsErr)

(***************************************************************************)
(* C4: from_str returns Ok only for strings of the grammar (an optional    *)
(* '-' at index 0, then tokens of digits and one unit code, concatenated   *)
(* or separated by one space), and an error for every other string.        *)
(***************************************************************************)
C4_OkOnlyForGrammar ==
  Done => /\ (IsOk => Grammar(s))
          /\ (~Grammar(s) => IsErr)

(***************************************************************************)
(* The exact value of a string of tokens, as the specification states it:  *)
(* numbers of width Wide, which no total of the inputs overflows.          *)
(***************************************************************************)
\* the number that a run of decimal digits writes
RECURSIVE DecRec(_, _, _)
DecRec(t, i, acc) ==
  IF i > Len(t) THEN acc
  ELSE DecRec(t, i + 1, MulAdd(acc, 10, to_digit(t[i])).bits)

Dec(t) == DecRec(t, 1, Zero(Wide))

\* the digits and the unit code of a well-formed token
DigitCount(t) == Cardinality({i \in 1..Len(t) : is_ascii_digit(t[i])})
TokenDigits(t) == SubSeq(t, 1, DigitCount(t))
TokenUnit(t) == SubSeq(t, DigitCount(t) + 1, Len(t))

\* w = 604800 s, d = 86400 s, h = 3600 s, m = 60 s, s = 1 s
SecondsOf(u) ==
  CASE u = <<"w">> -> 604800
    [] u = <<"d">> -> 86400
    [] u = <<"h">> -> 3600
    [] u = <<"m">> -> 60
    [] u = <<"s">> -> 1

\* the seconds and nanoseconds that one token stands for
Contribution(t) ==
  LET n == Dec(TokenDigits(t))
      u == TokenUnit(t)
  IN CASE u = <<"m", "s">> ->
            [secs |-> DivMod(n, MillisPerSec).bits,
             nanos |-> NatToBV(DivMod(n, MillisPerSec).rem * NanosPerMilli, Wide)]
       [] u = <<"n", "s">> ->
            [secs |-> DivMod(n, NanosPerSec).bits,
             nanos |-> NatToBV(DivMod(n, NanosPerSec).rem, Wide)]
       [] OTHER ->
            [secs |-> Mul(n, SecondsOf(u)).bits, nanos |-> Zero(Wide)]

\* the sum of the contributions of the tokens ts[i..]
RECURSIVE SumFrom(_, _)
SumFrom(ts, i) ==
  IF i > Len(ts) THEN [secs |-> Zero(Wide), nanos |-> Zero(Wide)]
  ELSE LET c == Contribution(ts[i])
           r == SumFrom(ts, i + 1)
       IN [secs |-> Add(c.secs, r.secs).bits, nanos |-> Add(c.nanos, r.nanos).bits]

\* the exact total, its nanoseconds above one second carried into the seconds
ExactTotal(ts) ==
  LET t == SumFrom(ts, 1)
      dm == DivMod(t.nanos, NanosPerSec)
  IN [secs |-> Add(t.secs, dm.bits).bits, nanos |-> NatToBV(dm.rem, Wide)]

\* the total fits u64 seconds
Representable(t) == \A i \in (W64 + 1)..Wide : t.secs[i] = 0

NoMillis(str) ==
  \A i \in 1..Len(Pieces(str)) : TokenUnit(Pieces(str)[i]) # <<"m", "s">>

(***************************************************************************)
(* C5: for every string of well-formed tokens separated by single spaces  *)
(* whose exact total fits u64 seconds and a nanosecond part below 10^9,    *)
(* from_str succeeds and returns the exact sum of the contributions of the *)
(* tokens.  Stated for the strings with no ms token, the contribution of   *)
(* which is the matter of C1.                                              *)
(***************************************************************************)
C5_ExactSum ==
  (Done /\ SpacedTokens(s) /\ NoMillis(s) /\ Representable(ExactTotal(Pieces(s)))) =>
    /\ IsOk
    /\ result.val.secs = Low(ExactTotal(Pieces(s)).secs, W64)
    /\ result.val.nanos = Low(ExactTotal(Pieces(s)).nanos, W32)

(***************************************************************************)
(* C6: every HDuration that from_str returns has its nanoseconds below     *)
(* 10^9, what the total held above that being carried into the seconds;    *)
(* seconds and nanoseconds are unsigned numbers (u64, u32) and the sign is *)
(* the one flag negative.                                                  *)
(***************************************************************************)
C6_NanosNormalised ==
  (Done /\ IsOk) =>
    /\ Less(result.val.nanos, NatToBV(NanosPerSec, W32))
    /\ result.val.secs = Add(sec, ZeroExt(DivMod(nano, NanosPerSec).bits, W64)).bits
    /\ result.val.nanos = NatToBV(DivMod(nano, NanosPerSec).rem, W32)
    /\ result.val.secs \in [1..W64 -> 0..(Base - 1)]
    /\ result.val.nanos \in [1..W32 -> 0..(Base - 1)]
    /\ result.val.negative \in BOOLEAN

\* a parse that succeeded with a total of a second or more of nanoseconds
C6_Witness ==
  /\ Done /\ IsOk
  /\ ~Less(nano, NatToBV(NanosPerSec, W32))
  /\ ~IsZero(result.val.nanos)

(***************************************************************************)
(* C7: a '-' at index 0 sets negative and leaves the seconds and           *)
(* nanoseconds those of the string without it; a '-' at any index >= 1     *)
(* makes the parse return an error; with no '-' at index 0 negative is     *)
(* false.                                                                  *)
(***************************************************************************)
MisplacedSign(str) == \E i \in 2..Len(str) : str[i] = "-"

C7_SignOnlyAtStart ==
  Done =>
    /\ (HasSign(s) /\ IsOk) =>
         LET r == HDuration_from_str(Tail(s), overflow_checks)
         IN /\ result.val.negative
            /\ r.kind = "Ok"
            /\ r.val.secs = result.val.secs
            /\ r.val.nanos = result.val.nanos
    /\ MisplacedSign(s) => IsErr
    /\ (~HasSign(s) /\ IsOk) => ~result.val.negative

(***************************************************************************)
(* C8: for a space-separated sequence of well-formed tokens that from_str  *)
(* parses successfully, every permutation of the tokens parses             *)
(* successfully too, to the same seconds, nanoseconds and negative flag.   *)
(***************************************************************************)
Permuted(ts) ==
  {JoinSp([i \in 1..Len(ts) |-> ts[p[i]]]) : p \in Permutations(1..Len(ts))}

C8_OrderIndependent ==
  (Done /\ IsOk /\ SpacedTokens(s)) =>
    \A str \in Permuted(Pieces(s)) :
      LET r == HDuration_from_str(str, overflow_checks)
      IN /\ r.kind = "Ok"
         /\ r.val.secs = result.val.secs
         /\ r.val.nanos = result.val.nanos
         /\ r.val.negative = result.val.negative

\* a successful parse of two different tokens, one of whole seconds and one
\* below a second
C8_Witness ==
  /\ Done /\ IsOk /\ SpacedTokens(s)
  /\ Len(Pieces(s)) >= 2
  /\ Pieces(s)[1] # Pieces(s)[2]
  /\ ~IsZero(sec) /\ ~IsZero(nano)

(***************************************************************************)
(* C9: an input that holds a character other than a digit, a letter of     *)
(* m s n d h w, a space or a '-' at index 0 makes the parse return an      *)
(* error; when that character is the first fault of the scan, the error    *)
(* names the character and its zero-based index.                           *)
(***************************************************************************)
Lexical(str, i) ==
  \/ is_ascii_digit(str[i + 1])
  \/ str[i + 1] \in UnitLetters
  \/ str[i + 1] = " "
  \/ (str[i + 1] = "-" /\ i = 0)

BadIndexes(str) == {i \in 0..(Len(str) - 1) : ~Lexical(str, i)}
FirstBad(str) == CHOOSE i \in BadIndexes(str) : \A j \in BadIndexes(str) : i <= j

C9_InvalidCharacter ==
  (Done /\ BadIndexes(s) # {}) =>
    /\ IsErr
    /\ (pos = FirstBad(s) \/ result.err.msg = "Invalid character") =>
         result = Err([msg |-> "Invalid character", c |-> s[FirstBad(s) + 1],
                       idx |-> FirstBad(s)])

(***************************************************************************)
(* One call of Precision::from_str on a unit text, beside one call of      *)
(* HDuration::from_str on a duration string that holds the text as the     *)
(* unit of a token.                                                        *)
(***************************************************************************)
\* longest unit text drawn letter by letter from UnitLetters
MaxUnitLen == 2

LongUnits ==
  { <<"w", "e", "e", "k", "s">>, <<"d", "a", "y", "s">>, <<"h", "o", "u", "r", "s">>,
    <<"m", "i", "n", "s">>, <<"s", "e", "c", "s">>, <<"m", "i", "l", "l", "i", "s">>,
    <<"n", "a", "n", "o", "s">> }

\* texts one edit away from a unit: another case, a letter less or more
NearUnits ==
  { <<"W">>, <<"S">>, <<"M", "s">>, <<"m", "S">>, <<"N", "S">>, <<"W", "e", "e", "k", "s">>,
    <<"w", "e", "e", "k">>, <<"s", "e", "c">>, <<"m", "i", "n">>, <<"n", "a", "n", "o">>,
    <<"m", "i", "l", "l", "i">>, <<"d", "a", "y", "s", "s">>, <<"m", "s", "s">>,
    <<"n", "s", " ">>, <<" ", "s">>, <<"x">> }

UnitTexts ==
  UNION {[1..n -> UnitLetters] : n \in 0..MaxUnitLen} \cup LongUnits \cup NearUnits

\* what stands before and after the unit text in the duration string
UnitBefore == {<<"1">>, <<"-", "1">>, <<"1", "s", " ", "2">>, <<"1", "s", "2">>}
UnitAfter == {<<>>, <<" ", "1", "s">>, <<"3", "s">>}

InitUnit ==
  /\ \E t \in UnitTexts, a \in UnitBefore, b \in UnitAfter, checks \in BOOLEAN :
       /\ unit_text = t
       /\ Start(from_str_start(a \o t \o b, checks))
  /\ unit_result = None
  /\ StampIdle
  /\ ConvIdle

ParseToken ==
  /\ unit_result = None
  /\ unit_result' = Precision_from_str(unit_text)
  /\ UNCHANGED <<unit_text, dur_vars, stamp_vars, conv_vars>>

NextUnit == ParseToken \/ Flush \/ Sign \/ Digit \/ Unit \/ Invalid \/ Return

SpecUnit == InitUnit /\ [][NextUnit]_vars

\* the unit texts and their tiers, as the specification lists them
KnownUnits ==
  { <<<<"w">>, "Weeks">>, <<<<"w", "e", "e", "k", "s">>, "Weeks">>,
    <<<<"d">>, "Days">>, <<<<"d", "a", "y", "s">>, "Days">>,
    <<<<"h">>, "Hours">>, <<<<"h", "o", "u", "r", "s">>, "Hours">>,
    <<<<"m">>, "Mins">>, <<<<"m", "i", "n", "s">>, "Mins">>,
    <<<<"s">>, "Secs">>, <<<<"s", "e", "c", "s">>, "Secs">>,
    <<<<"m", "s">>, "Millis">>, <<<<"m", "i", "l", "l", "i", "s">>, "Millis">>,
    <<<<"n", "s">>, "Nanos">>, <<<<"n", "a", "n", "o", "s">>, "Nanos">> }

IsKnownUnit(t) == \E k \in KnownUnits : k[1] = t

(***************************************************************************)
(* C10: Precision::from_str resolves the fourteen unit texts, each to its  *)
(* tier, by exact case-sensitive match and returns an error for every      *)
(* other string, the empty one included; a token of a duration whose       *)
(* buffered unit letters are anything else makes from_str return an error. *)
(***************************************************************************)
C10_ExactUnitMatch ==
  /\ [](unit_result # None =>
          /\ \A k \in KnownUnits : unit_text = k[1] => unit_result = Ok(k[2])
          /\ ~IsKnownUnit(unit_text) => unit_result.kind = "Err")
  /\ [][(Flush /\ ~IsKnownUnit(cbuf)) => (pc' = "done" /\ result'.kind = "Err")]_vars

\* a text that is no unit has been refused by Precision::from_str, and by
\* from_str as the unit of a token
C10_Witness ==
  /\ unit_result.kind = "Err"
  /\ Len(unit_text) > 0
  /\ Done
  /\ result = Err([msg |-> "Unknown precision", text |-> unit_text])

(***************************************************************************)
(* One conversion of a stamp: Precision::parse, then the rest of           *)
(* ConversionInput::to_dt.                                                 *)
(***************************************************************************)
\* the small stamps are -MaxStamp..MaxStamp
MaxStamp == 3

\* the i64 that a decimal text with an optional '-' writes
StampOf(t) ==
  IF HasSign(t) THEN Negate(Low(Dec(Tail(t)), W64)) ELSE Low(Dec(t), W64)

\* stamps at the edges of i64, of the calendar and of each tier's product
EdgeTexts ==
  {
    <<"-">> \o Txt(<<9, 2, 2, 3, 3, 7, 2, 0, 3, 6, 8, 5, 4, 7, 7, 5, 8, 0, 8>>),
    <<"-">> \o Txt(<<1, 5, 3, 7, 2, 2, 8, 6, 7, 2, 8, 0, 9, 1, 2, 9, 3, 1>>),
    <<"-">> \o Txt(<<2, 5, 6, 2, 0, 4, 7, 7, 8, 8, 0, 1, 5, 2, 1, 6>>),
    <<"-">> \o Txt(<<1, 0, 6, 7, 5, 1, 9, 9, 1, 1, 6, 7, 3, 0, 1>>),
    <<"-">> \o Txt(<<1, 5, 2, 5, 0, 2, 8, 4, 4, 5, 2, 4, 7, 2>>),
    <<"-">> \o Txt(<<8, 3, 3, 4, 6, 3, 2, 8, 5, 1, 2, 0, 1>>),
    <<"-">> \o Txt(<<8, 3, 3, 4, 6, 3, 2, 8, 5, 1, 2, 0, 0>>),
    Txt(<<1, 3, 5, 7, 5, 2, 2, 8>>),
    Txt(<<1, 3, 5, 7, 5, 2, 2, 9>>),
    Txt(<<9, 5, 0, 2, 6, 6, 0, 1>>),
    Txt(<<9, 5, 0, 2, 6, 6, 0, 2>>),
    Txt(<<1, 6, 8, 1, 3, 3, 0, 7, 1, 1>>),
    Txt(<<2, 2, 8, 0, 6, 3, 8, 4, 4, 7>>),
    Txt(<<2, 2, 8, 0, 6, 3, 8, 4, 4, 8>>),
    Txt(<<1, 3, 6, 8, 3, 8, 3, 0, 6, 8, 7, 9>>),
    Txt(<<1, 3, 6, 8, 3, 8, 3, 0, 6, 8, 8, 0>>),
    Txt(<<8, 2, 1, 0, 2, 9, 8, 4, 1, 2, 7, 9, 9>>),
    Txt(<<8, 2, 1, 0, 2, 9, 8, 4, 1, 2, 8, 0, 0>>),
    Txt(<<1, 5, 2, 5, 0, 2, 8, 4, 4, 5, 2, 4, 7, 2>>),
    Txt(<<3, 0, 5, 0, 0, 5, 6, 8, 9, 0, 4, 9, 4, 4>>),
    Txt(<<1, 0, 6, 7, 5, 1, 9, 9, 1, 1, 6, 7, 3, 0, 1>>),
    Txt(<<2, 1, 3, 5, 0, 3, 9, 8, 2, 3, 3, 4, 6, 0, 2>>),
    Txt(<<2, 5, 6, 2, 0, 4, 7, 7, 8, 8, 0, 1, 5, 2, 1, 6>>),
    Txt(<<5, 1, 2, 4, 0, 9, 5, 5, 7, 6, 0, 3, 0, 4, 3, 2>>),
    Txt(<<1, 5, 3, 7, 2, 2, 8, 6, 7, 2, 8, 0, 9, 1, 2, 9, 3, 1>>),
    Txt(<<3, 0, 7, 4, 4, 5, 7, 3, 4, 5, 6, 1, 8, 2, 5, 8, 6, 1>>),
    Txt(<<9, 2, 2, 3, 3, 7, 2, 0, 3, 6, 8, 5, 4, 7, 7, 5, 8, 0, 7>>) }

EdgeStamps == {StampOf(t) : t \in EdgeTexts}

Stamps ==
  {NatToBV(n, W64) : n \in 0..MaxStamp}
    \cup {Negate(NatToBV(n, W64)) : n \in 1..MaxStamp}
    \cup EdgeStamps

\* from_str's variables while no duration is parsed
DurIdle(checks) == Start([from_str_start(<<>>, checks) EXCEPT !.pc = "idle"])

InitStamp ==
  /\ \E ts \in Stamps, p \in Tiers, checks \in BOOLEAN :
       stamp = ts /\ tier = p /\ DurIdle(checks)
  /\ local = None /\ dt = None /\ spc = "parse"
  /\ UnitIdle
  /\ ConvIdle

\* precision.parse(*ts); a panic ends the process
PrecisionParse ==
  /\ spc = "parse"
  /\ local' = Precision_parse(tier, stamp, overflow_checks)
  /\ dt' = IF local'.kind = "Panic" THEN Panic ELSE dt
  /\ spc' = IF local'.kind = "Panic" THEN "done" ELSE "single"
  /\ UNCHANGED <<stamp, tier, dur_vars, unit_vars, conv_vars>>

\* .single().map(|dt| dt.into()).ok_or_else(|| format!("Could not parse: {}", ts))
ToDt ==
  /\ spc = "single"
  /\ dt' = to_dt_stamp(stamp, local)
  /\ spc' = "done"
  /\ UNCHANGED <<stamp, tier, local, dur_vars, unit_vars, conv_vars>>

NextStamp == PrecisionParse \/ ToDt

SpecStamp == InitStamp /\ [][NextStamp]_vars

WholeTiers == {"Weeks", "Days", "Hours", "Mins", "Secs"}

\* stamp * seconds_per() exactly, of width Wide
ExactProduct == Mul(SignExt(stamp, Wide), seconds_per(tier)).bits

\* the exact product is an i64 of the calendar range
ExactInRange == ExactProduct = SignExt(Low(ExactProduct, W64), Wide) /\ InRange(Low(ExactProduct, W64))

(***************************************************************************)
(* C3: for Weeks, Days, Hours, Mins and Secs, Precision::parse gives the   *)
(* instant stamp * seconds_per() seconds after the epoch, and for a stamp  *)
(* whose product overflows i64 or lies outside the calendar range it       *)
(* returns no instant (to_dt an error), never an instant of a wrapped      *)
(* product.                                                                *)
(***************************************************************************)
C3_StampToInstant ==
  (spc \in {"single", "done"} /\ tier \in WholeTiers) =>
    /\ local = IF ExactInRange THEN Single(Low(ExactProduct, W64), 0) ELSE None
    /\ spc = "done" =>
         IF ExactInRange THEN dt = Ok([secs |-> Low(ExactProduct, W64), nanos |-> 0])
         ELSE dt.kind = "Err"

(***************************************************************************)
(* C11: seconds_per is 604800 for Weeks, 86400 for Days, 3600 for Hours,   *)
(* 60 for Mins, 1 for Secs and 0 for Millis and Nanos, and for Weeks,      *)
(* Days, Hours and Mins it is the multiplier of the tier (7, 24, 60, 60)   *)
(* times seconds_per of the tier below.                                    *)
(***************************************************************************)
SecondsTable ==
  { <<"Weeks", 604800>>, <<"Days", 86400>>, <<"Hours", 3600>>, <<"Mins", 60>>,
    <<"Secs", 1>>, <<"Millis", 0>>, <<"Nanos", 0>> }

Multipliers == {<<"Weeks", 7>>, <<"Days", 24>>, <<"Hours", 60>>, <<"Mins", 60>>}

C11_SecondsPer ==
  /\ \A e \in SecondsTable : tier = e[1] => seconds_per(tier) = e[2]
  /\ \A e \in Multipliers :
       tier = e[1] => seconds_per(tier) = e[2] * seconds_per(try_downcast(tier).val)
  /\ (spc = "single" /\ tier \in WholeTiers /\ ~IsNeg(stamp) /\ ExactInRange) =>
       \A e \in SecondsTable : tier = e[1] => local.secs = Mul(stamp, e[2]).bits

\* Precision::parse has multiplied a stamp of hours by seconds_per
C11_Witness ==
  /\ spc = "single" /\ tier = "Hours"
  /\ stamp = NatToBV(MaxStamp, W64)
  /\ local = Single(NatToBV(MaxStamp * 3600, W64), 0)

(***************************************************************************)
(* Instants (chrono's DateTime): the seconds since the epoch (i64), the    *)
(* nanoseconds of the second and the offset of the local time in seconds.  *)
(* The source pins no release of chrono; lib is the release that the build *)
(* links: "legacy" computes timestamp_nanos unchecked and refuses to       *)
(* truncate a timestamp shorter than the span, "modern" does neither.      *)
(***************************************************************************)
Libs == {"legacy", "modern"}

Instant(secs, nanos, off) == [secs |-> secs, nanos |-> nanos, off |-> off]

\* a small signed number as an i64, and back
IntToBV(n) == IF n < 0 THEN Negate(NatToBV(-n, W64)) ELSE NatToBV(n, W64)
BVToInt(x) ==
  IF IsNeg(x) THEN -(Negate(x)[1] + Negate(x)[2] * Base) ELSE x[1] + x[2] * Base

\* i64 + i64 and i64 - i64, both exact within the model's ranges
SAdd(x, y) == Add(x, y).bits
SSub(x, y) == Add(x, Negate(y)).bits

\* i64 / m, the quotient truncated toward zero (Rust's / on i64), m > 0
DivTrunc(x, m) ==
  IF IsNeg(x) THEN Negate(DivMod(Negate(x), m).bits) ELSE DivMod(x, m).bits

\* x * 10^9 + n of width Wide, exactly (x signed, 0 <= n < 10^9)
TimesBillionPlus(x, n) ==
  LET a == MulAdd(SignExt(x, Wide), MillisPerSec, 0).bits
      b == MulAdd(a, MillisPerSec, 0).bits
      c == MulAdd(b, MillisPerSec, 0).bits
  IN Add(c, NatToBV(n, Wide)).bits

FitsI64(x) == x = SignExt(Low(x, W64), Wide)

\* DateTime::timestamp_nanos: legacy computes timestamp() * 1_000_000_000
\* + subsec_nanos unchecked, modern panics when the value is no i64
dt_timestamp_nanos(inst, l, checks) ==
  LET prod == TimesBillionPlus(inst.secs, 0)
      sum == TimesBillionPlus(inst.secs, inst.nanos)
  IN IF l = "legacy"
     THEN IF FitsI64(prod) /\ FitsI64(sum) THEN Ok(Low(sum, W64))
          ELSE IF checks THEN Panic ELSE Ok(Low(sum, W64))
     ELSE IF FitsI64(sum) THEN Ok(Low(sum, W64)) ELSE Panic

\* DateTime::timestamp_nanos_opt of the modern release
timestamp_nanos_opt(inst) ==
  LET sum == TimesBillionPlus(inst.secs, inst.nanos)
  IN IF FitsI64(sum) THEN Ok(Low(sum, W64)) ELSE None

\* DateTime::timestamp_millis: timestamp() * 1000 + subsec_millis, which no
\* instant of the calendar range overflows
dt_timestamp_millis(inst) ==
  Low(MulAdd(SignExt(inst.secs, Wide), MillisPerSec, inst.nanos \div NanosPerMilli).bits, W64)

\* Precision::as_stamp
as_stamp(p, inst, l, checks) ==
  CASE p = "Secs" -> Ok(inst.secs)
    [] p = "Millis" -> Ok(dt_timestamp_millis(inst))
    [] p = "Nanos" -> dt_timestamp_nanos(inst, l, checks)
    [] OTHER -> Ok(DivTrunc(inst.secs, seconds_per(p)))

(***************************************************************************)
(* The calendar of chrono's NaiveDate: the proleptic Gregorian date of a   *)
(* number of days since 1970-01-01 and back (days within a few centuries   *)
(* of the epoch, which is where truncation succeeds).                      *)
(***************************************************************************)
CivilFromDays(days) ==
  LET z == days + 719468
      era == z \div 146097
      doe == z - era * 146097
      yoe == (doe - doe \div 1460 + doe \div 36524 - doe \div 146096) \div 365
      doy == doe - (365 * yoe + yoe \div 4 - yoe \div 100)
      mp == (5 * doy + 2) \div 153
      d == doy - (153 * mp + 2) \div 5 + 1
      m == IF mp < 10 THEN mp + 3 ELSE mp - 9
  IN [year |-> yoe + era * 400 + (IF m <= 2 THEN 1 ELSE 0), month |-> m, day |-> d]

DaysFromCivil(y, m, d) ==
  LET y1 == IF m <= 2 THEN y - 1 ELSE y
      era == y1 \div 400
      yoe == y1 - era * 400
      doy == (153 * (IF m > 2 THEN m - 3 ELSE m + 9) + 2) \div 5 + d - 1
      doe == yoe * 365 + yoe \div 4 - yoe \div 100 + doy
  IN era * 146097 + doe - 719468

\* the local date of an instant: the day of secs + off
LocalDays(inst) == BVToInt(DivEuclid(SAdd(inst.secs, IntToBV(inst.off)), SecsPerDay).bits)
LocalDate(inst) == CivilFromDays(LocalDays(inst))

\* the instant moved back by a number of days
MinusDays(inst, n) == [inst EXCEPT !.secs = SSub(@, IntToBV(n * SecsPerDay))]

\* DateTime::with_day(1) and with_month(1): the local date changes, the
\* local time of day and the offset stay
with_day_1(inst) == Ok(MinusDays(inst, LocalDate(inst).day - 1))
with_month_1(inst) ==
  LET c == LocalDate(inst)
  IN Ok(MinusDays(inst, DaysFromCivil(c.year, c.month, c.day) - DaysFromCivil(c.year, 1, c.day)))

(***************************************************************************)
(* TruncateArgs::apply (src/src/common/truncate.rs) over chrono's          *)
(* DurationRound::duration_trunc.                                          *)
(***************************************************************************)
Some(v) == [kind |-> "Some", val |-> v]

\* a span of time: whole seconds and nanoseconds (chrono::Duration)
Span(secs, nanos) == [secs |-> secs, nanos |-> nanos]

\* the span of the target tier itself, not of the tier above it
trunc_dur_own(field) ==
  CASE field \in {"Weeks", "Days"} -> Span(SecsPerDay, 0)
    [] field = "Hours" -> Span(3600, 0)
    [] field = "Mins" -> Span(60, 0)
    [] field = "Secs" -> Span(1, 0)
    [] field = "Millis" -> Span(0, NanosPerMilli)
    [] field = "Nanos" -> Span(0, 1000)

\* let trunc_dur = match field { .. }
trunc_dur(field) ==
  CASE field \in {"Weeks", "Days", "Hours"} -> Span(SecsPerDay, 0)
    [] field = "Mins" -> Span(3600, 0)
    [] field = "Secs" -> Span(60, 0)
    [] field = "Millis" -> Span(1, 0)
    [] field = "Nanos" -> Span(0, NanosPerMilli)

\* a - b for spans a >= b
SpanSub(a, b) ==
  IF a.nanos >= b.nanos THEN Span(a.secs - b.secs, a.nanos - b.nanos)
  ELSE Span(a.secs - b.secs - 1, a.nanos + NanosPerSec - b.nanos)

\* original - Duration: the span taken off an instant
InstantSub(inst, d) ==
  IF inst.nanos >= d.nanos
  THEN [inst EXCEPT !.secs = SSub(@, IntToBV(d.secs)), !.nanos = @ - d.nanos]
  ELSE [inst EXCEPT !.secs = SSub(@, IntToBV(d.secs + 1)),
                    !.nanos = @ + NanosPerSec - d.nanos]

\* |stamp| % span for a span of whole seconds or of a part of a second
SpanRem(mag, span) ==
  IF span.secs > 0
  THEN LET a == DivMod(mag, NanosPerSec)
       IN Span(DivMod(a.bits, span.secs).rem, a.rem)
  ELSE Span(0, DivMod(mag, span.nanos).rem)

\* MAX_SECONDS_TIMESTAMP_FOR_NANOS of the legacy release
MaxSecondsForNanos == StampOf(Txt(<<9, 2, 2, 3, 3, 7, 2, 0, 3, 6>>))

RoundingError(e) == Err([msg |-> "Could not truncate", e |-> e])

\* the remainder is taken off the magnitude of the stamp, which moves an
\* instant before the epoch forward
trunc_by_stamp_toward_zero(inst, st, span, l) ==
  LET mag == IF IsNeg(st) THEN Negate(st) ELSE st
      rem == SpanRem(mag, span)
      fwd == inst.nanos + rem.nanos
  IN IF ~IsNeg(st) THEN Ok(InstantSub(inst, rem))
     ELSE Ok([inst EXCEPT !.secs = SAdd(@, IntToBV(rem.secs + fwd \div NanosPerSec)),
                          !.nanos = fwd % NanosPerSec])

\* let delta_down = stamp % span; match delta_down.cmp(&0) { .. }
trunc_by_stamp(inst, st, span, l) ==
  LET mag == IF IsNeg(st) THEN Negate(st) ELSE st
      rem == SpanRem(mag, span)
  IN IF l = "legacy" /\ Less(ZeroExt(mag, Wide), TimesBillionPlus(NatToBV(span.secs, W64), span.nanos))
     THEN RoundingError("DurationExceedsTimestamp")
     ELSE IF rem = Span(0, 0) THEN Ok(inst)
     ELSE IF ~IsNeg(st) THEN Ok(InstantSub(inst, rem))
     ELSE Ok(InstantSub(inst, SpanSub(span, rem)))

\* the stamp of the instant in UTC is truncated, not that of its local time
duration_trunc_utc(inst, span, l, checks) ==
  LET st == timestamp_nanos_opt(inst)
  IN IF st = None THEN RoundingError("TimestampExceedsLimit")
     ELSE trunc_by_stamp(inst, st.val, span, "modern")

\* dt.duration_trunc(span): the nanosecond stamp of the local time is
\* taken down to a multiple of the span
duration_trunc(inst, span, l, checks) ==
  LET naive == Instant(SAdd(inst.secs, IntToBV(inst.off)), inst.nanos, 0)
      mag == IF IsNeg(naive.secs) THEN Negate(naive.secs) ELSE naive.secs
  IN IF l = "legacy"
     THEN IF Less(MaxSecondsForNanos, mag) THEN RoundingError("TimestampExceedsLimit")
          ELSE LET st == dt_timestamp_nanos(naive, l, checks)
               IN IF st.kind = "Panic" THEN Panic
                  ELSE trunc_by_stamp(inst, st.val, span, l)
     ELSE LET st == timestamp_nanos_opt(naive)
          IN IF st = None THEN RoundingError("TimestampExceedsLimit")
             ELSE trunc_by_stamp(inst, st.val, span, l)

\* the floor alone, with no reset of the day of the month or of the month
TruncateArgs_apply_floor(self, inst, l, checks) ==
  IF self = None THEN Ok(inst)
  ELSE duration_trunc(inst, trunc_dur(self.val), l, checks)

\* TruncateArgs::apply
TruncateArgs_apply(self, inst, l, checks) ==
  IF self = None THEN Ok(inst)
  ELSE LET field == self.val
           trunc == duration_trunc(inst, trunc_dur(field), l, checks)
       IN IF trunc.kind # "Ok" THEN trunc
          ELSE CASE field = "Weeks" -> with_day_1(with_month_1(trunc.val).val)
                 [] field = "Days" -> with_day_1(trunc.val)
                 [] OTHER -> trunc

(***************************************************************************)
(* ConversionInput (src/src/convert.rs): an argument is the decimal text   *)
(* of an i64 or the text of a date and time.  Of the texts that chrono     *)
(* reads as DateTime<FixedOffset> the model reads the plain RFC 3339 form  *)
(* YYYY-MM-DDTHH:MM:SS followed by Z or by +HH:MM or -HH:MM; no input      *)
(* format (-i) is given.                                                   *)
(***************************************************************************)
\* 2^63 of width Wide
TwoTo63 == [i \in 1..Wide |-> IF i = W64 THEN MaxSmall ELSE 0]

AllDigits(t) == \A i \in 1..Len(t) : is_ascii_digit(t[i])

\* arg.parse::<i64>(): an optional sign, one digit or more, no overflow
parse_i64(arg) ==
  LET signed == Len(arg) > 0 /\ arg[1] \in {"-", "+"}
      digits == IF signed THEN Tail(arg) ELSE arg
      mag == Dec(digits)
  IN IF Len(digits) = 0 \/ ~AllDigits(digits) THEN Err("ParseIntError")
     ELSE IF HasSign(arg)
          THEN IF Less(TwoTo63, mag) THEN Err("ParseIntError") ELSE Ok(Negate(Low(mag, W64)))
          ELSE IF Less(mag, TwoTo63) THEN Ok(Low(mag, W64)) ELSE Err("ParseIntError")

\* the number that the digits t[a..b] write
Field(t, a, b) == BVToInt(Low(Dec(SubSeq(t, a, b)), W64))

DaysInMonth(y, m) ==
  IF m = 2 THEN (IF (y % 4 = 0 /\ y % 100 # 0) \/ y % 400 = 0 THEN 29 ELSE 28)
  ELSE IF m \in {4, 6, 9, 11} THEN 30 ELSE 31

\* arg.parse::<DateTime<FixedOffset>>() on the plain form
parse_datetime(arg) ==
  LET n == Len(arg)
      shaped ==
        /\ n \in {20, 25}
        /\ AllDigits(SubSeq(arg, 1, 4)) /\ arg[5] = "-"
        /\ AllDigits(SubSeq(arg, 6, 7)) /\ arg[8] = "-"
        /\ AllDigits(SubSeq(arg, 9, 10)) /\ arg[11] = "T"
        /\ AllDigits(SubSeq(arg, 12, 13)) /\ arg[14] = ":"
        /\ AllDigits(SubSeq(arg, 15, 16)) /\ arg[17] = ":"
        /\ AllDigits(SubSeq(arg, 18, 19))
        /\ IF n = 20 THEN arg[20] = "Z"
           ELSE /\ arg[20] \in {"+", "-"}
                /\ AllDigits(SubSeq(arg, 21, 22)) /\ arg[23] = ":"
                /\ AllDigits(SubSeq(arg, 24, 25))
  IN IF ~shaped THEN Err("ParseError")
     ELSE LET y == Field(arg, 1, 4)
              mo == Field(arg, 6, 7)
              d == Field(arg, 9, 10)
              h == Field(arg, 12, 13)
              mi == Field(arg, 15, 16)
              se == Field(arg, 18, 19)
              oh == IF n = 20 THEN 0 ELSE Field(arg, 21, 22)
              om == IF n = 20 THEN 0 ELSE Field(arg, 24, 25)
              off == (IF n = 25 /\ arg[20] = "-" THEN -1 ELSE 1) * (oh * 3600 + om * 60)
          IN IF mo \notin 1..12 \/ d \notin 1..DaysInMonth(y, mo) \/ h > 23 \/ mi > 59
                  \/ se > 59 \/ oh > 23 \/ om > 59
             THEN Err("ParseError")
             ELSE LET days == DaysFromCivil(y, mo, d)
                      lsecs == SAdd(Mul(IntToBV(days), SecsPerDay).bits, IntToBV(h * 3600 + mi * 60 + se))
                  IN Ok(Instant(SSub(lsecs, IntToBV(off)), 0, off))

Stamp(ts) == [kind |-> "Stamp", ts |-> ts]
String(inst) == [kind |-> "String", dt |-> inst]

\* ConversionInput::from_str_with_format(arg, None)
from_str_with_format(arg) ==
  LET ts == parse_i64(arg)
      parsed == parse_datetime(arg)
  IN IF ts.kind = "Ok" THEN Ok(Stamp(ts.val))
     ELSE IF parsed.kind = "Ok" THEN Ok(String(parsed.val))
     ELSE Err([msg |-> "Could not parse", arg |-> arg])

\* ConversionInput::to_dt: the instant of a text as it is, the instant of
\* a stamp in UTC
to_dt(inp, p, checks) ==
  IF inp.kind = "String" THEN Ok(inp.dt)
  ELSE LET r == Precision_parse(p, inp.ts, checks)
       IN IF r.kind = "Panic" THEN Panic
          ELSE LET o == to_dt_stamp(inp.ts, r)
               IN IF o.kind = "Ok" THEN Ok(Instant(o.val.secs, o.val.nanos, 0)) ELSE o

(***************************************************************************)
(* AtTimezoneArgs::get and DateTime::with_timezone: the zones of the model *)
(* keep one offset all year.                                               *)
(***************************************************************************)
TzOffsets == [UTC |-> 0, EST |-> -18000]
Zones == DOMAIN TzOffsets

with_timezone(inst, tz) == [inst EXCEPT !.off = TzOffsets[tz]]

(***************************************************************************)
(* CalcArgs::eval (src/src/common/calc.rs)                                 *)
(***************************************************************************)
\* chrono::Duration::MAX.secs = i64::MAX / 1000
MaxDurationSecs == StampOf(Txt(<<9, 2, 2, 3, 3, 7, 2, 0, 3, 6, 8, 5, 4, 7, 7, 5>>))

\* chrono::Duration::from_std(dur.inner)
from_std(inner) ==
  IF Less(MaxDurationSecs, inner.secs) THEN Err("OutOfRangeError")
  ELSE Ok([secs |-> inner.secs, nanos |-> BVToInt(ZeroExt(inner.nanos, W64))])

\* dt + d and dt + d.neg(): chrono panics when the sum leaves the calendar
plus_duration(inst, d, negative) ==
  LET fwd == inst.nanos + d.nanos
      bwd == inst.nanos - d.nanos
      secs == IF negative
              THEN SSub(SSub(inst.secs, d.secs), IntToBV(IF bwd < 0 THEN 1 ELSE 0))
              ELSE SAdd(SAdd(inst.secs, d.secs), IntToBV(IF fwd >= NanosPerSec THEN 1 ELSE 0))
      nanos == IF negative THEN (bwd + NanosPerSec) % NanosPerSec ELSE fwd % NanosPerSec
  IN IF InRange(secs) THEN Ok([inst EXCEPT !.secs = secs, !.nanos = nanos]) ELSE Panic

CalcArgs_eval(self, inst) ==
  IF self = None THEN Ok(inst)
  ELSE LET d == from_std(self.val)
       IN IF d.kind = "Err" THEN d ELSE plus_duration(inst, d.val, self.val.negative)

(***************************************************************************)
(* OrderArgs::apply (src/src/common/order.rs): slice::sort_by, a stable    *)
(* sort.  An item is an instant with the index of its argument.            *)
(***************************************************************************)
Item(inst, src) == [inst |-> inst, src |-> src]

\* Ord::cmp of two DateTime: the instants, whatever their offsets
cmp(a, b) ==
  IF a.inst.secs = b.inst.secs
  THEN (IF a.inst.nanos = b.inst.nanos THEN "Equal"
        ELSE IF a.inst.nanos < b.inst.nanos THEN "Less" ELSE "Greater")
  ELSE IF SLess(a.inst.secs, b.inst.secs) THEN "Less" ELSE "Greater"

reverse(o) == CASE o = "Less" -> "Greater" [] o = "Greater" -> "Less" [] OTHER -> o

\* the closure given to sort_by
compare(self, a, b) ==
  CASE self = Some("Dsc") -> reverse(cmp(a, b))
    [] self = Some("Asc") -> cmp(a, b)
    [] OTHER -> "Equal"

\* x goes before the first item that is greater than it
insert(self, sorted, x) ==
  LET after == {j \in 1..Len(sorted) : compare(self, sorted[j], x) = "Greater"}
      at == IF after = {} THEN Len(sorted) + 1 ELSE CHOOSE j \in after : \A k \in after : j <= k
  IN SubSeq(sorted, 1, at - 1) \o <<x>> \o SubSeq(sorted, at, Len(sorted))

RECURSIVE sort_by(_, _, _)
sort_by(self, items, n) ==
  IF n = 0 THEN <<>> ELSE insert(self, sort_by(self, items, n - 1), items[n])

\* descending as the ascending order turned round
OrderArgs_apply_turned(self, items) ==
  IF self = Some("Dsc")
  THEN LET up == sort_by(Some("Asc"), items, Len(items))
       IN [i \in 1..Len(up) |-> up[Len(up) + 1 - i]]
  ELSE sort_by(self, items, Len(items))

OrderArgs_apply(self, items) == sort_by(self, items, Len(items))

(***************************************************************************)
(* FormatArgs::format (src/src/common/formatting.rs): the stamp of the     *)
(* instant in decimal, or with the output format "%s" its seconds.         *)
(***************************************************************************)
RECURSIVE decimal(_)
decimal(mag) ==
  IF IsZero(mag) THEN <<>>
  ELSE LET dm == DivMod(mag, 10) IN Append(decimal(dm.bits), Digits10[dm.rem + 1])

\* i64::to_string
to_string(x) ==
  IF IsZero(x) THEN <<"0">>
  ELSE IF IsNeg(x) THEN <<"-">> \o decimal(Negate(x)) ELSE decimal(x)

EpochSeconds == <<"%", "s">>

FormatArgs_format(fmt, p, inst, l, checks) ==
  IF fmt = Some(EpochSeconds) THEN Ok(to_string(inst.secs))
  ELSE LET r == as_stamp(p, inst, l, checks)
       IN IF r.kind = "Panic" THEN Panic ELSE Ok(to_string(r.val))

(***************************************************************************)
(* ConvArgs::handle (src/src/convert.rs).  The iterator chain is lazy and  *)
(* collect stops at the first Err: every argument goes through the five    *)
(* steps before the next one is read.  A panic ends the process.           *)
(***************************************************************************)
MaxItems == 3

\* the arguments of the model
SmallTexts == {to_string(IntToBV(n)) : n \in -MaxStamp..MaxStamp}
LastSecond == <<"1","9","6","9","-","1","2","-","3","1","T","2","3",":","5","9",":","5","9","Z">>
ThreePastOne == <<"1","9","7","0","-","0","1","-","0","1","T","0","1",":","0","0",":","0","3","+","0","1",":","0","0">>
TenPastOne == <<"1","9","7","0","-","0","1","-","0","1","T","0","1",":","1","0",":","0","0","+","0","0",":","3","0">>
HalfPastEight == <<"1","9","6","9","-","1","2","-","3","1","T","2","0",":","3","0",":","0","0","-","0","5",":","0","0">>
AprilEvening == <<"2","0","2","3","-","0","4","-","1","2","T","2","0",":","1","8",":","3","1","Z">>
Year3000 == <<"3","0","0","0","-","0","1","-","0","1","T","0","0",":","0","0",":","0","0","Z">>
Year1600 == <<"1","6","0","0","-","0","3","-","0","1","T","0","0",":","0","0",":","0","1","Z">>
MidJanuary == <<"1","9","7","0","-","0","1","-","1","5","T","1","0",":","0","0",":","0","0","Z">>
FirstDays == <<"1","6","7","7","-","0","9","-","2","2","T","0","0",":","0","0",":","0","0","Z">>
DateTexts ==
  {LastSecond, ThreePastOne, TenPastOne, HalfPastEight, AprilEvening, Year3000,
   Year1600, MidJanuary, FirstDays}
BadTexts == {<<>>, <<"x">>, <<"1", "s">>, <<"-">>, Txt(<<9, 2, 2, 3, 3, 7, 2, 0, 3, 6, 8, 5, 4, 7, 7, 5, 8, 0, 8>>)}

\* the stamps of the truncate test and around the epoch, in nanoseconds
NanoTexts ==
  { Txt(<<1, 6, 8, 1, 3, 3, 0, 7, 1, 1, 2, 2, 0, 0, 0, 0, 1, 2, 0>>),
    <<"-">> \o Txt(<<1, 6, 8, 1, 3, 3, 0, 7, 1, 1, 2, 2, 0, 0, 0, 0, 1, 2, 0>>),
    <<"-">> \o Txt(<<8, 6, 4, 0, 0, 0, 0, 0, 0, 0, 0, 0, 0, 0>>),
    <<"-">> \o Txt(<<6, 1, 0, 0, 0, 0, 0, 0, 0, 0, 1>>),
    Txt(<<6, 0, 0, 0, 0, 0, 0, 0, 0, 0, 0>>),
    Txt(<<3, 6, 0, 0, 0, 0, 0, 0, 9, 9, 9, 9, 9, 9>>) }

\* the durations that -a is given, as clap hands them to HDuration::from_str
OneSecond == <<"1", "s">>
MinusOneSecond == <<"-", "1", "s">>
TooFar == Txt(<<9, 9, 9, 9, 9, 9, 9, 9, 9, 9, 9, 9, 9>>) \o <<"s">>
TooLong == Txt(<<9, 9, 9, 9, 9, 9, 9, 9, 9, 9, 9, 9, 9, 9, 9, 9, 9>>) \o <<"s">>

Lists(pool, n) == UNION {[1..k -> pool] : k \in 0..n}

Config(inp, p, fmt, tr, a, o, tz, l, checks) ==
  [input |-> inp, precision |-> p, output_format |-> fmt, truncate |-> tr,
   add |-> a, order |-> o, timezone |-> tz, lib |-> l, checks |-> checks]

\* one stamp, every tier
StampConfigs ==
  { Config(<<t>>, p, None, None, a, None, "UTC", l, checks) :
      t \in SmallTexts \cup EdgeTexts, p \in Tiers, a \in {None, Some(MinusOneSecond)},
      l \in Libs, checks \in BOOLEAN }

\* one instant, every truncation
TruncateConfigs ==
  { Config(<<t>>, p, None, Some(f), None, None, tz, l, checks) :
      t \in NanoTexts \cup DateTexts, p \in {"Nanos", "Secs"}, f \in Tiers,
      tz \in Zones, l \in Libs, checks \in BOOLEAN }

\* lists of arguments, sorted or not
ListConfigs ==
  { Config(inp, "Secs", None, ta[1], ta[2], o, "EST", l, TRUE) :
      inp \in Lists({<<"0">>, <<"3">>, ThreePastOne, TenPastOne}, MaxItems),
      ta \in {<<None, None>>, <<Some("Mins"), Some(OneSecond)>>},
      o \in {None, Some("Asc"), Some("Dsc")}, l \in {"modern"} }

\* arguments that fail at one step or another
FailConfigs ==
  { Config(inp, p, fmt, tr, a, Some("Asc"), "UTC", l, checks) :
      inp \in Lists({<<"0">>, <<"x">>, Year3000, Txt(<<8, 2, 1, 0, 2, 9, 8, 4, 1, 2, 8, 0, 0>>)}, 2)
              \cup {<<t>> : t \in BadTexts},
      p \in {"Secs", "Nanos"}, fmt \in {None, Some(EpochSeconds)},
      tr \in {None, Some("Secs")}, a \in {None, Some(TooFar), Some(TooLong)},
      l \in Libs, checks \in BOOLEAN }

\* one stamp and a duration of less than a second
FiveMillis == <<"5", "m", "s">>
SevenNanos == <<"7", "n", "s">>
SubSecondConfigs ==
  { Config(<<t>>, p, None, None, Some(a), None, "UTC", l, checks) :
      t \in SmallTexts, p \in {"Secs", "Millis", "Nanos"}, a \in {FiveMillis, SevenNanos},
      l \in Libs, checks \in BOOLEAN }

Configs ==
  StampConfigs \cup TruncateConfigs \cup ListConfigs \cup FailConfigs \cup SubSecondConfigs

\* -a is parsed before handle is called
AddOf(a, checks) == IF a = None THEN None ELSE Some(HDuration_from_str(a.val, checks).val)

InitConv ==
  /\ \E c \in Configs :
       /\ input = c.input /\ precision = c.precision
       /\ output_format = c.output_format /\ truncate = c.truncate
       /\ add = AddOf(c.add, c.checks) /\ order = c.order
       /\ timezone = c.timezone /\ lib = c.lib
       /\ DurIdle(c.checks)
  /\ idx = 1 /\ cur = None /\ dts = <<>> /\ out = <<>> /\ err = <<>>
  /\ cpc = IF input = <<>> THEN "sort" ELSE "from_str"
  /\ UnitIdle
  /\ StampIdle

\* what follows a step that returned r
after(r, ok) ==
  CASE r.kind = "Ok" -> ok
    [] r.kind = "Err" -> "err"
    [] r.kind = "Panic" -> "panicked"

\* the truncation placed after the change of the timezone
next_step_late_truncate(at) ==
  CASE at = "from_str" -> "to_dt"
    [] at = "to_dt" -> "with_timezone"
    [] at = "with_timezone" -> "truncate"
    [] at = "truncate" -> "add"

\* the adapters of the iterator chain in the order they are written
next_step(at) ==
  CASE at = "from_str" -> "to_dt"
    [] at = "to_dt" -> "truncate"
    [] at = "truncate" -> "with_timezone"
    [] at = "with_timezone" -> "add"

\* one step of the chain on the current argument
Chain(at, r) ==
  /\ cpc = at
  /\ cur' = r
  /\ cpc' = after(r, next_step(at))
  /\ UNCHANGED <<conv_args, idx, dts, out, err, dur_vars, unit_vars, stamp_vars>>

\* .map(|inp| ConversionInput::from_str_with_format(inp, input_format))
FromStr == Chain("from_str", from_str_with_format(input[idx]))

\* .map(|rdt| rdt.and_then(|inp| inp.to_dt(&self.format.precision)))
ItemToDt == Chain("to_dt", to_dt(cur.val, precision, overflow_checks))

\* .map(|rdt| rdt.and_then(|dt| self.truncate.apply(dt)))
Truncate ==
  Chain("truncate", TruncateArgs_apply(truncate, cur.val, lib, overflow_checks))

\* .map(|rdt| rdt.map(|dt| dt.with_timezone(&into_tz)))
WithTimezone == Chain("with_timezone", Ok(with_timezone(cur.val, timezone)))

\* .map(|rdt| rdt.and_then(|dt| self.add.eval(dt))), and collect takes the
\* instant
AddEval ==
  /\ cpc = "add"
  /\ LET r == CalcArgs_eval(add, cur.val)
     IN /\ cur' = r
        /\ IF r.kind = "Ok"
           THEN /\ dts' = Append(dts, Item(r.val, idx))
                /\ idx' = idx + 1
                /\ cpc' = IF idx = Len(input) THEN "sort" ELSE "from_str"
           ELSE /\ cpc' = after(r, "add")
                /\ UNCHANGED <<dts, idx>>
  /\ UNCHANGED <<conv_args, out, err, dur_vars, unit_vars, stamp_vars>>

\* Err(e) => return writeln!(&mut err, "{}", e)
WriteErr ==
  /\ cpc = "err"
  /\ err' = Append(err, cur.err)
  /\ cpc' = "done"
  /\ UNCHANGED <<conv_args, idx, cur, dts, out, dur_vars, unit_vars, stamp_vars>>

\* self.order.apply(&mut dts)
Sort ==
  /\ cpc = "sort"
  /\ dts' = OrderArgs_apply(order, dts)
  /\ idx' = 1
  /\ cpc' = IF dts = <<>> THEN "done" ELSE "format"
  /\ UNCHANGED <<conv_args, cur, out, err, dur_vars, unit_vars, stamp_vars>>

\* one round of try_for_each(|dt| writeln!(&mut out, "{}", self.format.format(dt)))
Format ==
  /\ cpc = "format"
  /\ LET r == FormatArgs_format(output_format, precision, dts[idx].inst, lib, overflow_checks)
     IN IF r.kind = "Panic"
        THEN cpc' = "panicked" /\ UNCHANGED <<out, idx>>
        ELSE /\ out' = Append(out, r.val)
             /\ idx' = idx + 1
             /\ cpc' = IF idx = Len(dts) THEN "done" ELSE "format"
  /\ UNCHANGED <<conv_args, cur, dts, err, dur_vars, unit_vars, stamp_vars>>

NextConv ==
  FromStr \/ ItemToDt \/ Truncate \/ WithTimezone \/ AddEval \/ WriteErr \/ Sort \/ Format

SpecConv == InitConv /\ [][NextConv]_vars

\* the stamp of argument k and the instant Precision::parse gives for it
StampAt(k) == parse_i64(input[k])
ParsedAt(k) == Precision_parse(precision, StampAt(k).val, overflow_checks)
InstantAt(k) == Instant(ParsedAt(k).secs, ParsedAt(k).nanos, 0)

RoundTripTiers == {"Secs", "Millis", "Nanos"}

\* no truncate, add or format option, and every argument a stamp that
\* Precision::parse turns into an instant
PlainStamps ==
  /\ truncate = None /\ add = None /\ output_format = None /\ order = None
  /\ \A k \in 1..Len(input) : StampAt(k).kind = "Ok" /\ ParsedAt(k).kind = "Single"

(***************************************************************************)
(* C12: for Secs, Millis and Nanos and every stamp x that Precision::parse *)
(* turns into an instant, as_stamp of that instant is x again, and handle  *)
(* with no truncate, add or format option prints each input stamp          *)
(* unchanged.                                                              *)
(***************************************************************************)
C12_RoundTrip ==
  (cpc # "idle" /\ precision \in RoundTripTiers /\ PlainStamps) =>
    /\ \A k \in 1..Len(input) :
         as_stamp(precision, InstantAt(k), lib, overflow_checks) = Ok(StampAt(k).val)
    /\ cpc # "panicked"
    /\ cpc = "done" =>
         /\ err = <<>> /\ Len(out) = Len(input)
         /\ \A k \in 1..Len(input) : parse_i64(out[k]) = StampAt(k)

DividedTiers == {"Weeks", "Days", "Hours", "Mins"}

\* q is n / m with the quotient truncated toward zero: n - q * m has the
\* sign of n and is less than m in magnitude
IsTruncatedQuotient(q, n, m) ==
  LET r == SSub(n, Mul(q, m).bits)
  IN /\ r = IntToBV(BVToInt(r))
     /\ IF IsNeg(n) THEN BVToInt(r) \in (1 - m)..0 ELSE BVToInt(r) \in 0..(m - 1)

\* v is the stamp of the instant at tier p, by the table of the tiers
IsStampOf(v, p, inst) ==
  CASE p \in DividedTiers ->
         \E e \in SecondsTable : e[1] = p /\ IsTruncatedQuotient(v, inst.secs, e[2])
    [] p = "Secs" -> v = inst.secs
    [] p = "Millis" ->
         SignExt(v, Wide) =
           MulAdd(SignExt(inst.secs, Wide), MillisPerSec, inst.nanos \div NanosPerMilli).bits
    [] p = "Nanos" -> SignExt(v, Wide) = TimesBillionPlus(inst.secs, inst.nanos)

\* the instants are collected and as_stamp is what formats them
Formatting == cpc \in {"format", "done", "panicked"} /\ dts # <<>> /\ output_format = None

(***************************************************************************)
(* C13: as_stamp for Weeks, Days, Hours and Mins returns the epoch seconds *)
(* of the instant divided by seconds_per(), the quotient truncated toward  *)
(* zero for negative as for positive instants; for Secs, Millis and Nanos  *)
(* it returns the epoch seconds, milliseconds and nanoseconds.             *)
(***************************************************************************)
C13_AsStamp ==
  Formatting =>
    /\ \A k \in 1..Len(dts) :
         LET r == as_stamp(precision, dts[k].inst, lib, overflow_checks)
         IN r.kind = "Ok" /\ IsStampOf(r.val, precision, dts[k].inst)
    /\ \A k \in 1..Len(out) :
         LET v == parse_i64(out[k])
         IN v.kind = "Ok" /\ IsStampOf(v.val, precision, dts[k].inst)

\* the instant that to_dt gave for the argument that is worked on
Original == to_dt(from_str_with_format(input[idx]).val, precision, overflow_checks).val

\* truncate.apply has just returned the instant cur.val for Original
Truncated == cpc = "with_timezone" /\ truncate # None

FlooredTiers == {"Nanos", "Millis", "Secs", "Mins", "Hours"}

\* the seconds and the nanoseconds that floor a UTC instant at the tier
FloorSeconds(secs, m) == SSub(secs, IntToBV(DivEuclid(secs, m).rem))
Floored(inst, f) ==
  CASE f = "Nanos" -> [inst EXCEPT !.nanos = @ - (@ % NanosPerMilli)]
    [] f = "Millis" -> [inst EXCEPT !.nanos = 0]
    [] f = "Secs" -> [inst EXCEPT !.nanos = 0, !.secs = FloorSeconds(@, 60)]
    [] f = "Mins" -> [inst EXCEPT !.nanos = 0, !.secs = FloorSeconds(@, 3600)]
    [] f = "Hours" -> [inst EXCEPT !.nanos = 0, !.secs = FloorSeconds(@, SecsPerDay)]

\* the stamp of the truncate test and what the test expects of each tier
TestStamp == Txt(<<1, 6, 8, 1, 3, 3, 0, 7, 1, 1, 2, 2, 0, 0, 0, 0, 1, 2, 0>>)
TestFloors ==
  { <<"Nanos", Txt(<<1, 6, 8, 1, 3, 3, 0, 7, 1, 1, 2, 2, 0, 0, 0, 0, 0, 0, 0>>)>>,
    <<"Millis", Txt(<<1, 6, 8, 1, 3, 3, 0, 7, 1, 1, 0, 0, 0, 0, 0, 0, 0, 0, 0>>)>>,
    <<"Secs", Txt(<<1, 6, 8, 1, 3, 3, 0, 6, 8, 0, 0, 0, 0, 0, 0, 0, 0, 0, 0>>)>>,
    <<"Mins", Txt(<<1, 6, 8, 1, 3, 2, 9, 6, 0, 0, 0, 0, 0, 0, 0, 0, 0, 0, 0>>)>>,
    <<"Hours", Txt(<<1, 6, 8, 1, 2, 5, 7, 6, 0, 0, 0, 0, 0, 0, 0, 0, 0, 0, 0>>)>> }

\* handle was given the test stamp in nanoseconds and has ended
TestRun == input = <<TestStamp>> /\ precision = "Nanos" /\ cpc \in {"done", "panicked"}

(***************************************************************************)
(* C14: TruncateArgs::apply zeroes the field of the target tier and every  *)
(* finer one: a UTC instant is floored to a whole millisecond by Nanos, to *)
(* a whole second by Millis, to a whole minute by Secs, to a whole hour by *)
(* Mins and to midnight of its day by Hours; the nanosecond stamp          *)
(* 1681330711220000120 gives 1681330711220000000, 1681330711000000000,     *)
(* 1681330680000000000, 1681329600000000000 and 1681257600000000000.       *)
(***************************************************************************)
C14_TruncateFloors ==
  /\ (Truncated /\ truncate.val \in FlooredTiers /\ Original.off = 0) =>
       cur.val = Floored(Original, truncate.val)
  /\ (TestRun /\ truncate # None) =>
       \A e \in TestFloors : truncate.val = e[1] => out = <<e[2]>>

\* the test stamp has been floored to the minute
C14_Witness ==
  /\ Truncated /\ truncate = Some("Secs") /\ input = <<TestStamp>>
  /\ precision = "Nanos"
  /\ cur.val = Instant(IntToBV(1681330680), 0, 0)

\* the seconds of the local day that have passed at the instant
SecondOfDay(inst) == DivEuclid(SAdd(inst.secs, IntToBV(inst.off)), SecsPerDay).rem

\* the instant is midnight of the local date [year, month, day]
IsMidnightOf(inst, y, m, d) ==
  /\ inst.nanos = 0 /\ SecondOfDay(inst) = 0
  /\ LocalDate(inst) = [year |-> y, month |-> m, day |-> d]

\* a is not later than b
NotLater(a, b) == cmp(Item(a, 0), Item(b, 0)) # "Greater"

\* what apply gives for the instant at another target tier
TruncatedTo(f) == TruncateArgs_apply(Some(f), Original, lib, overflow_checks)

TestFirsts ==
  { <<"Days", Txt(<<1, 6, 8, 0, 3, 0, 7, 2, 0, 0, 0, 0, 0, 0, 0, 0, 0, 0, 0>>)>>,
    <<"Weeks", Txt(<<1, 6, 7, 2, 5, 3, 1, 2, 0, 0, 0, 0, 0, 0, 0, 0, 0, 0, 0>>)>> }

(***************************************************************************)
(* C15: with target Days apply returns midnight of day 1 of the month of   *)
(* the input, with target Weeks midnight of 1 January of its year: the     *)
(* nanosecond stamp 1681330711220000120 gives 1680307200000000000 for Days *)
(* and 1672531200000000000 for Weeks; the Weeks result is never later than *)
(* the Days result, which is never later than the Hours result.            *)
(***************************************************************************)
C15_DaysAndWeeks ==
  /\ (Truncated /\ truncate.val = "Days") =>
       /\ IsMidnightOf(cur.val, LocalDate(Original).year, LocalDate(Original).month, 1)
       /\ cur.val.off = Original.off
       /\ NotLater(cur.val, TruncatedTo("Hours").val)
  /\ (Truncated /\ truncate.val = "Weeks") =>
       /\ IsMidnightOf(cur.val, LocalDate(Original).year, 1, 1)
       /\ cur.val.off = Original.off
       /\ NotLater(cur.val, TruncatedTo("Days").val)
  /\ (TestRun /\ truncate # None) =>
       \A e \in TestFirsts : truncate.val = e[1] => out = <<e[2]>>

\* an evening of April has been taken back to the first of January
C15_Witness ==
  /\ Truncated /\ truncate = Some("Weeks") /\ input = <<AprilEvening>>
  /\ cur.val = Instant(IntToBV(1672531200), 0, 0)

\* the instant lies on the boundary of the tier in its local time
OnBoundary(inst, f) ==
  CASE f = "Nanos" -> inst.nanos % NanosPerMilli = 0
    [] f = "Millis" -> inst.nanos = 0
    [] f = "Secs" -> inst.nanos = 0 /\ SecondOfDay(inst) % 60 = 0
    [] f = "Mins" -> inst.nanos = 0 /\ SecondOfDay(inst) % 3600 = 0
    [] f = "Hours" -> inst.nanos = 0 /\ SecondOfDay(inst) = 0
    [] f = "Days" -> inst.nanos = 0 /\ SecondOfDay(inst) = 0 /\ LocalDate(inst).day = 1
    [] f = "Weeks" ->
         /\ inst.nanos = 0 /\ SecondOfDay(inst) = 0
         /\ LocalDate(inst).day = 1 /\ LocalDate(inst).month = 1

\* the seconds from a to b, when they are few
SecondsBetween(a, b) == BVToInt(SSub(b.secs, a.secs))
Near(a, b) == SSub(b.secs, a.secs) = IntToBV(SecondsBetween(a, b))

\* the first boundary of the tier after the boundary low is later than inst
NextIsLater(low, inst, f) ==
  CASE f = "Nanos" -> low.secs = inst.secs /\ inst.nanos - low.nanos < NanosPerMilli
    [] f = "Millis" -> low.secs = inst.secs
    [] f = "Secs" -> Near(low, inst) /\ SecondsBetween(low, inst) < 60
    [] f = "Mins" -> Near(low, inst) /\ SecondsBetween(low, inst) < 3600
    [] f = "Hours" -> Near(low, inst) /\ SecondsBetween(low, inst) < SecsPerDay
    [] f = "Days" ->
         /\ LocalDate(low).year = LocalDate(inst).year
         /\ LocalDate(low).month = LocalDate(inst).month
    [] f = "Weeks" -> LocalDate(low).year = LocalDate(inst).year

(***************************************************************************)
(* C16: for every instant, before or after the epoch, and every target     *)
(* tier for which apply succeeds, the result is not later than the input   *)
(* and is the largest instant not later than the input on the truncation   *)
(* boundary of the tier.                                                   *)
(***************************************************************************)
C16_LargestBoundary ==
  Truncated =>
    /\ NotLater(cur.val, Original)
    /\ OnBoundary(cur.val, truncate.val)
    /\ NextIsLater(cur.val, Original, truncate.val)

\* an instant before the epoch has been taken back to the minute before it
C16_Witness ==
  /\ Truncated /\ truncate = Some("Secs")
  /\ Original = Instant(IntToBV(-62), 999999999, 0)
  /\ cur.val = Instant(IntToBV(-120), 0, 0)

\* apply has truncated an instant before the epoch that lay on no boundary
\* of the target tier
NegativeOffBoundary ==
  /\ Truncated /\ truncate.val \in FlooredTiers
  /\ IsNeg(Original.secs)
  /\ ~OnBoundary(Original, truncate.val)

(***************************************************************************)
(* C17 as claimed: an instant before the epoch that is not on a boundary   *)
(* is moved toward the epoch by the truncation to Nanos, Millis, Secs,     *)
(* Mins or Hours, to the later boundary and not to the earlier one.        *)
(***************************************************************************)
C17_TowardEpoch ==
  NegativeOffBoundary =>
    /\ OnBoundary(cur.val, truncate.val)
    /\ cmp(Item(cur.val, 0), Item(Original, 0)) = "Greater"

(***************************************************************************)
(* C17 as amended: an instant before the epoch that is not on a boundary   *)
(* is moved away from the epoch by a truncation to Nanos, Millis, Secs,    *)
(* Mins or Hours that succeeds: to the earlier boundary, less than one     *)
(* span of the tier before the instant.                                    *)
(***************************************************************************)
C17_AwayFromEpoch ==
  NegativeOffBoundary =>
    /\ OnBoundary(cur.val, truncate.val)
    /\ cmp(Item(cur.val, 0), Item(Original, 0)) = "Less"
    /\ IsNeg(cur.val.secs)
    /\ NextIsLater(cur.val, Original, truncate.val)

\* the instant 1 ns before 61 s before the epoch has gone to 120 s before it
C17_Witness ==
  /\ NegativeOffBoundary /\ truncate = Some("Secs")
  /\ input = << <<"-">> \o Txt(<<6, 1, 0, 0, 0, 0, 0, 0, 0, 0, 1>>) >>
  /\ cur.val = Instant(IntToBV(-120), 0, 0)

\* the place of an item in a list without repeated items
PlaceIn(items, x) == CHOOSE k \in 1..Len(items) : items[k] = x

\* b holds the items of a, each once
IsPermutation(a, b) ==
  /\ Len(a) = Len(b)
  /\ \A k \in 1..Len(a) : \E j \in 1..Len(b) : b[j] = a[k]
  /\ \A i, j \in 1..Len(b) : b[i] = b[j] => i = j

(***************************************************************************)
(* C18: OrderArgs::apply leaves a permutation of the instants: with no     *)
(* order option they keep their input order, with asc they are in          *)
(* non-decreasing time order, with dsc in non-increasing time order, and   *)
(* instants that compare equal keep their relative input order.            *)
(***************************************************************************)
C18_StableOrder ==
  [][cpc = "sort" =>
       /\ IsPermutation(dts, dts')
       /\ order = None => dts' = dts
       /\ \A i, j \in 1..Len(dts') :
            i < j =>
              /\ order = Some("Asc") => cmp(dts'[i], dts'[j]) # "Greater"
              /\ order = Some("Dsc") => cmp(dts'[i], dts'[j]) # "Less"
              /\ cmp(dts'[i], dts'[j]) = "Equal" =>
                   PlaceIn(dts, dts'[i]) < PlaceIn(dts, dts'[j])]_vars

\* three instants, two of them equal, have been put in descending order
C18_Witness ==
  /\ cpc = "format" /\ order = Some("Dsc") /\ idx = 1
  /\ input = << <<"0">>, <<"3">>, ThreePastOne >>
  /\ [k \in 1..Len(dts) |-> dts[k].src] = <<2, 3, 1>>
  /\ cmp(dts[1], dts[2]) = "Equal"

\* what the five steps of the chain make of argument k
ResultAt(k) ==
  LET a == from_str_with_format(input[k])
      b == to_dt(a.val, precision, overflow_checks)
      c == TruncateArgs_apply(truncate, b.val, lib, overflow_checks)
  IN IF a.kind # "Ok" THEN a
     ELSE IF b.kind # "Ok" THEN b
     ELSE IF c.kind # "Ok" THEN c
     ELSE CalcArgs_eval(add, with_timezone(c.val, timezone))

\* the arguments that fail at one of the steps
Failing == {k \in 1..Len(input) : ResultAt(k).kind # "Ok"}
FirstFailing == CHOOSE k \in Failing : \A j \in Failing : k <= j

(***************************************************************************)
(* C19: handle is all-or-nothing: if one input fails to parse, to convert  *)
(* to an instant, to truncate or to have the duration added, nothing is    *)
(* written to out and exactly one line, the error of the first failing     *)
(* input, to err; if every input succeeds, one line for each input is      *)
(* written to out and nothing to err.                                      *)
(***************************************************************************)
C19_AllOrNothing ==
  cpc # "idle" =>
    /\ cpc # "panicked"
    /\ Failing # {} =>
         /\ out = <<>>
         /\ cpc = "done" =>
              /\ ResultAt(FirstFailing).kind = "Err"
              /\ err = <<ResultAt(FirstFailing).err>>
    /\ Failing = {} =>
         /\ err = <<>>
         /\ cpc = "done" => Len(out) = Len(input)

\* the steps of handle that the claimed order lets follow one another
StepOrder ==
  { <<"from_str", "to_dt">>, <<"to_dt", "truncate">>, <<"truncate", "with_timezone">>,
    <<"with_timezone", "add">>, <<"add", "from_str">>, <<"add", "sort">>,
    <<"sort", "format">>, <<"sort", "done">>, <<"format", "format">>,
    <<"format", "done">>, <<"err", "done">> }
    \cup {<<at, end>> : at \in {"from_str", "to_dt", "truncate", "add"}, end \in {"err", "panicked"}}
    \cup {<<"format", "panicked">>}

\* the instant of argument k before any step after to_dt
OriginalOf(k) == to_dt(from_str_with_format(input[k]).val, precision, overflow_checks).val

\* the instant one second earlier, seen in another offset
SecondBefore(inst, off) == [inst EXCEPT !.secs = SSub(@, One(W64)), !.off = off]

(***************************************************************************)
(* C20: handle applies its steps to each input in the order parse, stamp   *)
(* to instant, truncate, retarget the timezone, add the duration, and only *)
(* then sorts and formats: the truncation sees the instant before the      *)
(* duration is added and in its original offset, an added duration is      *)
(* never truncated away, and the sort compares the instants after the      *)
(* addition.                                                               *)
(***************************************************************************)
C20_StepOrder ==
  /\ [][cpc' # cpc \/ cpc = "format" => <<cpc, cpc'>> \in StepOrder]_vars
  /\ [][cpc' = "sort" => Len(dts') = Len(input)]_vars
  /\ [](\A k \in 1..Len(dts) :
          /\ dts[k].inst = ResultAt(dts[k].src).val
          /\ (truncate # None /\ add = AddOf(Some(OneSecond), overflow_checks)) =>
               OnBoundary(SecondBefore(dts[k].inst, OriginalOf(dts[k].src).off), truncate.val))

\* ten past one at +00:30 went back to one o'clock there, then to the
\* other zone, then one second on
C20_Witness ==
  /\ cpc = "sort" /\ truncate = Some("Mins") /\ add = AddOf(Some(OneSecond), overflow_checks)
  /\ input = <<TenPastOne>>
  /\ dts = <<Item(Instant(IntToBV(1801), 0, -18000), 1)>>

\* what is left of the scan: two per character not yet consumed, and the
\* steps from the loop to the return
Variant ==
  2 * (Len(s) - pos) + (CASE pc = "loop" -> 2 [] pc = "ret" -> 1 [] OTHER -> 0)

\* one iteration of the loop has consumed the character it examined
Consumed == pc' = "loop" /\ pos' = pos + 1 /\ pos < Len(s)

\* the iteration has returned an error
ReturnedErr == pc' = "done" /\ result'.kind = "Err" /\ pos' = pos

\* the iteration has flushed at the end of the input and left the loop
FinalFlush == pos = Len(s) /\ match_arm(Cur) = "flush" /\ pc' = "ret" /\ pos' = pos

(***************************************************************************)
(* C21: from_str terminates on every finite input: it scans from left to   *)
(* right, each iteration of the loop consumes exactly one character,       *)
(* returns an error, or does the final flush at the end of the input and   *)
(* stops, and no character is examined again after it was consumed.        *)
(***************************************************************************)
C21_Terminates ==
  /\ [][Variant' < Variant /\ Variant' >= 0]_vars
  /\ [][pc = "loop" => (Consumed \/ ReturnedErr \/ FinalFlush)]_vars
  /\ [][pos' >= pos /\ (pc = "loop" /\ peek(Cur).some => peek(Cur).idx = pos)]_vars

\* the text ends in a space
EndsInSpace == Len(s) > 0 /\ s[Len(s)] = " "

\* the text has two spaces in a row
HasTwoSpaces == \E i \in 1..(Len(s) - 1) : s[i] = " " /\ s[i + 1] = " "

\* a text in which a flush meets an empty unit buffer
EmptyToken == s = <<>> \/ s = <<"-">> \/ EndsInSpace \/ HasTwoSpaces

(***************************************************************************)
(* C22: from_str returns an error for the empty string, for a lone "-",    *)
(* for every string that ends in a space and for every string with two     *)
(* consecutive spaces.                                                     *)
(***************************************************************************)
C22_EmptyTokenIsError == Done /\ EmptyToken => IsErr

\* the tiers below a tier
RECURSIVE Finer(_)
Finer(p) ==
  LET down == try_downcast(p)
  IN IF down.kind = "Ok" THEN {down.val} \cup Finer(down.val) ELSE {}

\* truncate.apply has just returned for Original with no truncate option
Untouched == cpc = "with_timezone" /\ truncate = None

\* the truncation of an instant with the option and the build of the run
Again(f, inst) == TruncateArgs_apply(Some(f), inst, lib, overflow_checks)

(***************************************************************************)
(* C23: where TruncateArgs::apply succeeds on an instant x for a tier T,   *)
(* truncating its result to T again returns the same instant, and          *)
(* truncating to T what the truncation of x to a finer tier gave returns   *)
(* what truncating x to T gave; with no truncate option apply returns the  *)
(* instant unchanged.                                                      *)
(***************************************************************************)
C23_Idempotent ==
  /\ Truncated =>
       /\ Again(truncate.val, cur.val) = Ok(cur.val)
       /\ \A f \in Finer(truncate.val) :
            Again(f, Original).kind = "Ok" =>
              Again(truncate.val, Again(f, Original).val) = Ok(cur.val)
  /\ Untouched => cur = Ok(Original)

\* the tiers for which seconds_per is 0
SubSecondTiers == Tiers \ WholeTiers

Epoch == Instant(Zero(W64), 0, 0)

\* to_dt has just returned the instant cur.val for a stamp that is not 0
ParsedNonZero ==
  /\ cpc = "truncate"
  /\ StampAt(idx).kind = "Ok" /\ StampAt(idx).val # Zero(W64)

\* the process has panicked while the output lines were written
FormatPanicked == cpc = "panicked" /\ input # <<>> /\ Len(dts) = Len(input)

\* the nanosecond stamp of the instant, or the product of its seconds on
\* the way to it, has no 64 bits
NoNanoStamp(inst) ==
  \/ ~FitsI64(TimesBillionPlus(inst.secs, inst.nanos))
  \/ ~FitsI64(TimesBillionPlus(inst.secs, 0))

\* the instant lies in the first unit of the tier after the epoch
InFirstUnit(inst, p) ==
  /\ inst.secs = Zero(W64)
  /\ inst.nanos < (IF p = "Millis" THEN NanosPerMilli ELSE 1)

(***************************************************************************)
(* C24: the 0 that seconds_per returns for Millis and Nanos is never a     *)
(* divisor or a multiplier.  seconds_per is at least 1 for Weeks, Days,    *)
(* Hours, Mins and Secs; Precision::parse turns no Millis or Nanos stamp   *)
(* other than 0 into the epoch; as_stamp fails for no tier on a division   *)
(* by zero (its one failure is the instant without a nanosecond stamp) and *)
(* gives 0 for Millis and Nanos only within the first unit after the       *)
(* epoch; and a duration in ms or ns that flush read moves the instant it  *)
(* is added to.                                                            *)
(***************************************************************************)
C24_ZeroNeverUsed ==
  /\ (cpc # "idle" /\ precision \in WholeTiers) => seconds_per(precision) >= 1
  /\ (ParsedNonZero /\ precision \in SubSecondTiers) => cur.val # Epoch
  /\ (FormatPanicked /\ output_format = None) =>
       precision = "Nanos" /\ NoNanoStamp(dts[idx].inst)
  /\ (Formatting /\ precision \in SubSecondTiers) =>
       \A k \in 1..Len(out) :
         parse_i64(out[k]) = Ok(Zero(W64)) => InFirstUnit(dts[k].inst, precision)
  /\ (add # None /\ truncate = None) =>
       \A k \in 1..Len(dts) :
         dts[k].inst # with_timezone(OriginalOf(dts[k].src), timezone)

\* 3 ms and a duration of 5 ms went through parse, flush and as_stamp
C24_Witness ==
  /\ cpc = "done" /\ precision = "Millis" /\ input = <<(<<"3">>)>>
  /\ add = AddOf(Some(FiveMillis), overflow_checks)
  /\ Len(dts) = 1 /\ dts[1].inst.secs = Zero(W64) /\ dts[1].inst.nanos > 3 * NanosPerMilli
  /\ out = <<(<<"3">>)>>

====
